---- MODULE Spec2Model ----
(***************************************************************************)
(* Verification model of the stateful core of the Slack coding-agent bot:  *)
(*   - crontab day-of-week conversion        (src/scheduler/scheduler.py)  *)
(*   - JobScheduler: fire, restart, misfire recovery                       *)
(*   - per-channel routing state of MessageOrchestrator                    *)
(*   - the AskUserQuestion rendezvous                                      *)
(*   - NotificationService: send queue, drain loop, message splitting      *)
(*   - a job's cron expression across add_job, persistence and reload      *)
(* Each subsystem has its own specification over the shared variables.     *)
(***************************************************************************)
EXTENDS Integers, Sequences, FiniteSets, TLC

VARIABLES
    \* ---- middleware chain of the Bolt app ------------------------------
    authSessions,  \* users with a valid session in the AuthenticationManager
    mw,            \* the event in the middleware chain and where it is
    mwHandled,     \* the events that reached a registered handler
    mwCount,       \* events received so far
    \* ---- AgentHandler ------------------------------------------------
    aEvent,        \* the event handed to the handler by the bus
    aPc,           \* "received" | "orchestrator" | "run" | "done"
    aIndex,        \* position of handle_scheduled in target_channel_ids
    aRuns,         \* the agent runs made for the event, with their outcome
    aPublished,    \* channel ids of the AgentResponseEvents published
    aEscaped,      \* an exception left the handler
    \* ---- mention gating and gap context of agentic_text ---------------
    mEvent,        \* the inbound event: kind, text, channel, project flag, marker
    mPc,           \* "received" | "history" | "prompt" | "agent" | "ignored"
    mChecked,      \* what _check_mention_required returned
    mFetch,        \* the conversations_history call made for the event, if any
    mHistory,      \* the messages that call returned (newest first)
    mPrompt,       \* the prompt handed on: preamble lines and message text
    mPosts,        \* messages posted to the channel for the event
    mAgentRuns,    \* agent invocations made for the event
    \* ---- ProjectChannelManager ----------------------------------------
    registry,      \* ProjectRegistry: per slug enabled and static channel_id
    repoMappings,  \* table project_threads (durable): slug -> channel_id
    workspace,     \* channel ids conversations_list returns
    _channel_map,  \* ProjectChannelManager._channel_map: channel_id -> project
    resolvers,     \* the resolve_project calls: position, argument, result
    resolveCalls,  \* number of resolve_project calls so far
    synced,        \* the startup sync_channels has run
    \* ---- crontab conversion -------------------------------------------
    dowField,      \* the crontab day-of-week field handed to parse_crontab
    apField,       \* the day_of_week expression given to CronTrigger
    cronPc,        \* "input" | "parsed"
    \* ---- JobScheduler --------------------------------------------------
    now,           \* wall clock, minutes
    running,       \* the process is up and start() has loaded the jobs
    rows,          \* table scheduled_jobs (durable): job_id -> row
    timers,        \* APScheduler registrations (memory): job_id -> entry
    missedJobs,    \* start(): missed_jobs still to be fired, in order
    recFire,       \* start(): the _fire_event call in progress, or NoFire
    natFire,       \* per job: the timer's _fire_event call in progress
    published,     \* ScheduledEvents handed to event_bus.publish so far
    dueAtStart,    \* jobs that had a missed fire within grace at that load
    staleAtStart,  \* jobs loaded with last_fired_at set and nothing in grace
    recCount,      \* recovery fires published per job since that load
    dispatched,    \* number of times a timer elapsed or a recovery fire began
    jobLimit,      \* number of jobs the run may add (fixed by the specification)
    crashes,       \* number of process crashes so far
    \* ---- a job's day-of-week field across add_job and restarts ---------
    givenDow,      \* day-of-week field of the expression handed to add_job
    registeredDow, \* day_of_week of the trigger add_job registered
    persistedDow,  \* day-of-week field of the row's cron_expression
    reloadedDow,   \* day_of_week of the trigger the latest load registered
    loads,         \* number of loads (restarts) since the add
    reloadPc,      \* "input" | "added" | "loaded"
    \* ---- outcome of scheduler API calls --------------------------------
    apiCall,       \* the latest add_job / remove_job call at this instant and how it ended
    \* ---- channel routing state ----------------------------------------
    userStates,    \* deps["_user_states"] (memory): user -> flat keys + channel_state
    dbLastTs,      \* project_threads.last_response_ts (durable): channel -> ts
    handlers,      \* in-flight handler coroutines: position and locals
    agentSessions, \* session ids the agent service has handed out
    lastSaved,     \* per channel: the state _persist_channel_state stored last
    saves,         \* per event: how often its state was saved and how its handler ended
    lastBotTs,     \* Slack: per channel the ts of the newest response the bot posted
    newPending,    \* per user and channel: /new was handled, no agent run succeeded since
    turns,         \* number of events taken in so far
    restarts,      \* number of process restarts of the bot so far
    \* ---- AskUserQuestion rendezvous -----------------------------------
    clock,         \* event-loop time, seconds
    _pending_questions, \* MessageOrchestrator._pending_questions: key -> entry
    asks,          \* the _ask_user calls: position, entry object, outcome
    clicks,        \* the button handler calls: position and locals
    \* ---- NotificationService._split_message ---------------------------
    splitText,     \* the text handed to _split_message
    splitMax,      \* its max_length
    splitChunks,   \* the list it returned
    splitPc,       \* "input" | "returned"
    \* ---- NotificationService -------------------------------------------
    loopTime,      \* loop.time(), tenths of a second
    _send_queue,   \* asyncio.Queue of AgentResponseEvents
    _last_send_per_channel, \* channel -> loop time of the last completed send
    _running,      \* NotificationService._running
    drain,         \* the _sender_task: position and locals of _process_send_queue
    sendCalls,     \* per channel: the latest chat_postMessage call and the one before
    handled        \* the latest handle_response call: event type, queue length before/after

cronVars  == <<dowField, apField, cronPc>>
schedVars == <<now, running, rows, timers, missedJobs, recFire, natFire,
               published, dueAtStart, staleAtStart, recCount,
               dispatched, jobLimit, crashes>>
routeVars == <<userStates, dbLastTs, handlers, agentSessions, lastSaved, saves,
               lastBotTs, newPending, turns, restarts>>
askVars == <<clock, _pending_questions, asks, clicks>>
splitVars == <<splitText, splitMax, splitChunks, splitPc>>
notifyVars == <<loopTime, _send_queue, _last_send_per_channel, _running,
                drain, sendCalls, handled>>
apiVars == <<apiCall>>
reloadVars == <<givenDow, registeredDow, persistedDow, reloadedDow, loads, reloadPc>>
resolveVars == <<registry, repoMappings, workspace, _channel_map, resolvers, resolveCalls, synced>>
mentionVars == <<mEvent, mPc, mChecked, mFetch, mHistory, mPrompt, mPosts, mAgentRuns>>
agentVars == <<aEvent, aPc, aIndex, aRuns, aPublished, aEscaped>>
authVars == <<authSessions, mw, mwHandled, mwCount>>
vars == <<cronVars, schedVars, routeVars, askVars, splitVars, notifyVars, apiVars,
          reloadVars,
          resolveVars,
          mentionVars,
          agentVars,
          authVars>>

\* what each subsystem leaves alone
nonCronVars  == <<schedVars, routeVars, askVars, splitVars, notifyVars, apiVars, reloadVars,
          resolveVars,
          mentionVars,
          agentVars,
          authVars>>
nonSchedVars == <<cronVars, routeVars, askVars, splitVars, notifyVars, apiVars, reloadVars,
          resolveVars,
          mentionVars,
          agentVars,
          authVars>>
nonRouteVars == <<cronVars, schedVars, askVars, splitVars, notifyVars, apiVars, reloadVars,
          resolveVars,
          mentionVars,
          agentVars,
          authVars>>
nonAskVars   == <<cronVars, schedVars, routeVars, splitVars, notifyVars, apiVars, reloadVars,
          resolveVars,
          mentionVars,
          agentVars,
          authVars>>
nonSplitVars == <<cronVars, schedVars, routeVars, askVars, notifyVars, apiVars, reloadVars,
          resolveVars,
          mentionVars,
          agentVars,
          authVars>>
nonNotifyVars == <<cronVars, schedVars, routeVars, askVars, splitVars, apiVars, reloadVars,
          resolveVars,
          mentionVars,
          agentVars,
          authVars>>
\* what add_job and remove_job, which record their outcome, leave alone
nonSchedApiVars == <<cronVars, routeVars, askVars, splitVars, notifyVars, reloadVars,
          resolveVars,
          mentionVars,
          agentVars,
          authVars>>
nonReloadVars == <<cronVars, schedVars, routeVars, askVars, splitVars, notifyVars, apiVars,
          resolveVars,
          mentionVars,
          agentVars,
          authVars>>

nonResolveVars == <<cronVars, schedVars, routeVars, askVars, splitVars, notifyVars, apiVars, reloadVars,
          mentionVars,
          agentVars,
          authVars>>

nonMentionVars == <<cronVars, schedVars, routeVars, askVars, splitVars, notifyVars, apiVars, reloadVars, resolveVars,
          agentVars,
          authVars>>

nonAgentVars == <<cronVars, schedVars, routeVars, askVars, splitVars, notifyVars, apiVars, reloadVars, resolveVars, mentionVars,
          authVars>>

nonAuthVars == <<cronVars, schedVars, routeVars, askVars, splitVars, notifyVars, apiVars, reloadVars, resolveVars, mentionVars, agentVars>>

None == "none"

Min(S) == CHOOSE x \in S : \A y \in S : x <= y
Max(S) == CHOOSE x \in S : \A y \in S : x >= y

(***************************************************************************)
(* Crontab day-of-week conversion                                          *)
(***************************************************************************)

\* Bounds of the enumerated day-of-week fields.
MaxStep == 3
MaxFieldLen == 2

NoStep == 0

\* A token is a bare number or a range lo-hi with an optional /step.
NumToken(n) == [kind |-> "num", n |-> n, lo |-> n, hi |-> n, step |-> NoStep]
RangeToken(lo, hi, s) == [kind |-> "range", n |-> lo, lo |-> lo, hi |-> hi, step |-> s]

DowTokens ==
    {NumToken(n) : n \in 0..7}
    \cup {RangeToken(r[1], r[2], s) :
            r \in {p \in (0..7) \X (0..7) : p[1] <= p[2]}, s \in 0..MaxStep}

DowFields == UNION {[1..k -> DowTokens] : k \in 1..MaxFieldLen}

\* crontab numeric dow -> APScheduler numeric dow
_CRONTAB_DOW_TO_APSCHEDULER == [d \in 0..7 |->
    CASE d = 0 -> 6 [] d = 1 -> 0 [] d = 2 -> 1 [] d = 3 -> 2
      [] d = 4 -> 3 [] d = 5 -> 4 [] d = 6 -> 5 [] d = 7 -> 6]

StepVal(s) == IF s = NoStep THEN 1 ELSE s

\* range(lo, hi + 1, step) as a sequence
RangeSeq(lo, hi, step) ==
    [i \in 1..((hi - lo) \div step + 1) |-> lo + (i - 1) * step]

\* The converted token(s); an enumerated range yields a comma list.
_convert_dow_token(token) ==
    IF token.kind = "range"
    THEN LET lo == _CRONTAB_DOW_TO_APSCHEDULER[token.lo]
             hi == _CRONTAB_DOW_TO_APSCHEDULER[token.hi]
         IN  IF lo <= hi
             THEN <<RangeToken(lo, hi, token.step)>>
             ELSE LET days == RangeSeq(token.lo, token.hi, StepVal(token.step))
                  IN  [i \in 1..Len(days) |->
                          NumToken(_CRONTAB_DOW_TO_APSCHEDULER[days[i]])]
    ELSE <<NumToken(_CRONTAB_DOW_TO_APSCHEDULER[token.n])>>

RECURSIVE _convert_dow_field(_)
_convert_dow_field(field) ==
    IF field = <<>> THEN <<>>
    ELSE _convert_dow_token(Head(field)) \o _convert_dow_field(Tail(field))

\* Weekdays on which a CronTrigger day_of_week expression fires
\* (APScheduler numbering, 0 = Monday ... 6 = Sunday).
APWeekdayName == <<"mon", "tue", "wed", "thu", "fri", "sat", "sun">>

TriggerTokenDays(t) ==
    IF t.kind = "range"
    THEN {APWeekdayName[d + 1] :
            d \in {x \in t.lo..t.hi : (x - t.lo) % StepVal(t.step) = 0}}
    ELSE {APWeekdayName[t.n + 1]}

TriggerDays(expr) == UNION {TriggerTokenDays(expr[i]) : i \in 1..Len(expr)}

\* Weekdays a crontab field denotes (0 and 7 = Sunday, 1 = Monday ...).
CrontabWeekdayName == <<"sun", "mon", "tue", "wed", "thu", "fri", "sat", "sun">>

CrontabTokenDays(t) ==
    IF t.kind = "range"
    THEN {CrontabWeekdayName[d + 1] :
            d \in {x \in t.lo..t.hi : (x - t.lo) % StepVal(t.step) = 0}}
    ELSE {CrontabWeekdayName[t.n + 1]}

CrontabDays(field) == UNION {CrontabTokenDays(field[i]) : i \in 1..Len(field)}

CronInit ==
    /\ dowField = <<>>
    /\ apField = <<>>
    /\ cronPc = "input"

CronInputs ==
    /\ dowField \in DowFields
    /\ apField = <<>>
    /\ cronPc = "input"

\* parse_crontab: builds the trigger from the converted day-of-week field.
parse_crontab ==
    /\ cronPc = "input"
    /\ apField' = _convert_dow_field(dowField)
    /\ cronPc' = "parsed"
    /\ UNCHANGED dowField
    /\ UNCHANGED nonCronVars

(***************************************************************************)
(* JobScheduler                                                            *)
(***************************************************************************)

\* Bounds of the scheduler model.
MaxNow == 1300
MaxEvents == 3
MaxCrashes == 2

\* How long after a missed fire the job is still executed (seconds).
MISFIRE_GRACE_SECONDS == 3 * 60 * 60
\* Iteration ceiling of the misfire walk.
WalkLimit == 1000

SecondsPerMinute == 60 * 1

NoTime == -1

JobIds == {"j1", "j2"}
JobOrder == <<"j1", "j2">>
JobNames == {"a", "b"}
NameOrder == <<"a", "b">>
\* Crontab expressions used by the jobs: every minute, every fourth hour.
Crons == {"* * * * *", "0 */4 * * *"}
\* Minutes the process may stay down before a restart.
DownSteps == {30, 421, 1200}

\* Distance in minutes between two fire times of the trigger.
CronPeriod(cron) == IF cron = "* * * * *" THEN 1 ELSE 4 * 60

\* CronTrigger: T is a fire time of the expression.
IsFireTime(cron, T) == T % CronPeriod(cron) = 0

\* CronTrigger.get_next_fire_time(previous, previous): the first fire time
\* strictly after previous.
NextFireTime(cron, previous) ==
    (previous \div CronPeriod(cron) + 1) * CronPeriod(cron)

\* The k-th fire time after last, i.e. NextFireTime iterated k times.
ExpectedFire(cron, last, k) ==
    (last \div CronPeriod(cron) + k) * CronPeriod(cron)

NoRow == [present |-> FALSE, job_name |-> None, cron |-> None,
          is_active |-> FALSE, last_fired_at |-> NoTime]
NoTimer == [registered |-> FALSE, job_name |-> None, cron |-> None,
            next_run_time |-> NoTime]
NoFire == [busy |-> FALSE, job_id |-> None, job_name |-> None,
           expected |-> NoTime, late |-> 0, fired |-> NoTime,
           rowActive |-> FALSE]

\* The last step of a run of consecutive walk steps.
LastStep(steps) == CHOOSE k \in steps : k + 1 \notin steps

\* _detect_misfire without the grace-window test: every missed fire counts.
_detect_misfire_no_grace(cron, last_fired_raw, t) ==
    IF last_fired_raw = NoTime THEN NoTime
    ELSE LET walked == {k \in 1..WalkLimit :
                           ExpectedFire(cron, last_fired_raw, k) <= t}
         IN  IF walked = {} THEN NoTime
             ELSE ExpectedFire(cron, last_fired_raw, LastStep(walked))

\* _detect_misfire without the early return for a null last_fired_at: a
\* job that never fired is walked from the epoch.
_detect_misfire_null_from_epoch(cron, last_fired_raw, t) ==
    LET last == IF last_fired_raw = NoTime THEN 0 ELSE last_fired_raw
        walked == {k \in 1..WalkLimit : ExpectedFire(cron, last, k) <= t}
        inGrace == {k \in walked :
                      (t - ExpectedFire(cron, last, k))
                          * SecondsPerMinute <= MISFIRE_GRACE_SECONDS}
    IN  IF inGrace = {} THEN NoTime
        ELSE ExpectedFire(cron, last, LastStep(inGrace))

\* _detect_misfire: walk the expected fire times after last_fired_at, at
\* most WalkLimit of them, stop at the first one after now, and keep the
\* last one that is not later than the grace window.
_detect_misfire(cron, last_fired_raw, t) ==
    IF last_fired_raw = NoTime THEN NoTime
    ELSE LET walked == {k \in 1..WalkLimit :
                           ExpectedFire(cron, last_fired_raw, k) <= t}
             inGrace == {k \in walked :
                           (t - ExpectedFire(cron, last_fired_raw, k))
                               * SecondsPerMinute <= MISFIRE_GRACE_SECONDS}
         IN  IF inGrace = {} THEN NoTime
             ELSE ExpectedFire(cron, last_fired_raw, LastStep(inGrace))

\* _update_last_fired: UPDATE ... SET last_fired_at = now
\* WHERE job_name = ? AND is_active = 1.  A failing statement is logged
\* and swallowed (dbOk = FALSE leaves the table as it is).
_update_last_fired(table, job_name, t, dbOk) ==
    IF ~dbOk THEN table
    ELSE [j \in JobIds |->
            IF table[j].present /\ table[j].is_active
               /\ table[j].job_name = job_name
            THEN [table[j] EXCEPT !.last_fired_at = t]
            ELSE table[j]]

ActiveRows(table) == {j \in JobIds : table[j].present /\ table[j].is_active}

RECURSIVE SelectSeq2(_, _)
\* the sub-sequence of JobOrder whose members are in S
SelectSeq2(order, S) ==
    IF order = <<>> THEN <<>>
    ELSE IF Head(order) \in S
         THEN <<Head(order)>> \o SelectSeq2(Tail(order), S)
         ELSE SelectSeq2(Tail(order), S)

\* A fire time T with last < T <= t and t - T within the grace window.
MissedWithinGrace(cron, last, t) ==
    \E T \in (IF last + 1 > t - MISFIRE_GRACE_SECONDS \div SecondsPerMinute
              THEN last + 1
              ELSE t - MISFIRE_GRACE_SECONDS \div SecondsPerMinute)..t :
        /\ IsFireTime(cron, T)
        /\ (t - T) * SecondsPerMinute <= MISFIRE_GRACE_SECONDS

\* No add_job or remove_job call was made yet.
NoApiCall == [op |-> None, job |-> None, cron |-> None, live |-> FALSE, raised |-> FALSE]

SchedInit ==
    /\ jobLimit = 1
    /\ now = 0
    /\ running = FALSE
    /\ rows = [j \in JobIds |-> NoRow]
    /\ timers = [j \in JobIds |-> NoTimer]
    /\ missedJobs = <<>>
    /\ recFire = NoFire
    /\ natFire = [j \in JobIds |-> NoFire]
    /\ published = {}
    /\ dueAtStart = {}
    /\ staleAtStart = {}
    /\ recCount = [j \in JobIds |-> 0]
    /\ dispatched = 0
    /\ crashes = 0
    /\ apiCall = NoApiCall

\* Job tables earlier runs of the process left behind: two jobs added by
\* add_job that never fired, the second under the same or another name and
\* possibly removed again.
JobTables ==
    {[j \in JobIds |->
        IF j = JobOrder[1]
        THEN [present |-> TRUE, job_name |-> NameOrder[1], cron |-> c1,
              is_active |-> TRUE, last_fired_at |-> NoTime]
        ELSE [present |-> TRUE, job_name |-> n2, cron |-> c2,
              is_active |-> a2, last_fired_at |-> NoTime]] :
        c1 \in Crons, c2 \in Crons, n2 \in JobNames, a2 \in BOOLEAN}

\* The process is constructed over such a table; it may go down once.
SchedInputs ==
    /\ jobLimit = 2
    /\ now = 0
    /\ running = FALSE
    /\ rows \in JobTables
    /\ timers = [j \in JobIds |-> NoTimer]
    /\ missedJobs = <<>>
    /\ recFire = NoFire
    /\ natFire = [j \in JobIds |-> NoFire]
    /\ published = {}
    /\ dueAtStart = {}
    /\ staleAtStart = {}
    /\ recCount = [j \in JobIds |-> 0]
    /\ dispatched = 0
    /\ crashes = MaxCrashes - 1
    /\ apiCall = NoApiCall

\* Expressions add_job may be handed that are no valid crontab: one with
\* four fields, one whose minute field CronTrigger rejects.
MalformedCrons == {"* * * *", "61 * * * *"}

\* len(expression.strip().split())
FieldCount(expression) == IF expression = "* * * *" THEN 4 ELSE 5

\* CronTrigger(...) raises ValueError for a field outside its range.
CronTriggerRejects(expression) == expression = "61 * * * *"

\* parse_crontab raising for every expression the trigger rejects, but not
\* checking the number of fields.
ParseCrontabRaises_no_field_check(expression) ==
    CronTriggerRejects(expression)

\* parse_crontab(expression) raises ValueError.
ParseCrontabRaises(expression) ==
    FieldCount(expression) # 5 \/ CronTriggerRejects(expression)

\* The rows _load_jobs_from_db registers: the SELECT of the active rows
\* may fail (logged at debug level, nothing is loaded), and a row whose
\* crontab parse_crontab rejects is logged and skipped.
LoadableRows(table, dbOk) ==
    IF dbOk THEN {j \in ActiveRows(table) : ~ParseCrontabRaises(table[j].cron)}
    ELSE {}

\* start(): _load_jobs_from_db registers every active row it could read
\* and parse with the timer and collects the missed jobs; the scheduler
\* is then started.
start ==
    /\ ~running
    /\ \E dbOk \in BOOLEAN :
       LET active == LoadableRows(rows, dbOk)
           missed == {j \in active :
                        _detect_misfire(rows[j].cron, rows[j].last_fired_at, now)
                            # NoTime}
       IN  /\ timers' = [j \in JobIds |->
                IF j \in active
                THEN [registered |-> TRUE, job_name |-> rows[j].job_name,
                      cron |-> rows[j].cron,
                      next_run_time |-> NextFireTime(rows[j].cron, now)]
                ELSE NoTimer]
           /\ missedJobs' = [i \in 1..Len(SelectSeq2(JobOrder, missed)) |->
                LET j == SelectSeq2(JobOrder, missed)[i]
                IN  [job_id |-> j, job_name |-> rows[j].job_name,
                     expected_fire |->
                        _detect_misfire(rows[j].cron, rows[j].last_fired_at, now),
                     late |-> now -
                        _detect_misfire(rows[j].cron, rows[j].last_fired_at, now)]]
    /\ dueAtStart' = {j \in ActiveRows(rows) :
            /\ rows[j].cron \in Crons
            /\ rows[j].last_fired_at # NoTime
            /\ MissedWithinGrace(rows[j].cron, rows[j].last_fired_at, now)}
    /\ staleAtStart' = {j \in ActiveRows(rows) :
            /\ rows[j].cron \in Crons
            /\ rows[j].last_fired_at # NoTime
            /\ ~MissedWithinGrace(rows[j].cron, rows[j].last_fired_at, now)}
    /\ running' = TRUE
    /\ recCount' = [j \in JobIds |-> 0]
    /\ UNCHANGED <<now, rows, recFire, natFire, published, dispatched, jobLimit, crashes>>
    /\ UNCHANGED nonSchedVars

\* start(): _fire_event for the next missed job, up to the await on
\* _update_last_fired.
RecoveryFireRecord ==
    /\ running
    /\ missedJobs # <<>>
    /\ ~recFire.busy
    /\ dispatched < MaxEvents
    /\ dispatched' = dispatched + 1
    /\ LET info == Head(missedJobs)
       IN  \E dbOk \in BOOLEAN :
             /\ rows' = _update_last_fired(rows, info.job_name, now, dbOk)
             /\ recFire' = [busy |-> TRUE, job_id |-> info.job_id,
                            job_name |-> info.job_name,
                            expected |-> info.expected_fire,
                            late |-> info.late, fired |-> now,
                            rowActive |-> info.job_id \in ActiveRows(rows)]
    /\ missedJobs' = Tail(missedJobs)
    /\ UNCHANGED <<now, running, timers, natFire, published, dueAtStart, staleAtStart, recCount, jobLimit, crashes>>
    /\ UNCHANGED nonSchedVars

\* start(): _fire_event hands the ScheduledEvent to event_bus.publish.
RecoveryFirePublish ==
    /\ running
    /\ recFire.busy
    /\ published' = published \cup {
            [job_id |-> recFire.job_id, expected |-> recFire.expected,
             late |-> recFire.late, kind |-> "recovery"]}
    /\ recCount' = [recCount EXCEPT ![recFire.job_id] = @ + 1]
    /\ recFire' = NoFire
    /\ UNCHANGED <<now, running, rows, timers, missedJobs, natFire, dueAtStart, staleAtStart, dispatched, jobLimit, crashes>>
    /\ UNCHANGED nonSchedVars

\* The timer of job j elapses: APScheduler calls _fire_event unless the
\* previous call for j is still running (max_instances = 1).
TimerFire(j) ==
    /\ running
    /\ timers[j].registered
    /\ timers[j].next_run_time = now
    /\ dispatched < MaxEvents
    /\ dispatched' = dispatched + 1
    /\ timers' = [timers EXCEPT ![j].next_run_time =
                      NextFireTime(timers[j].cron, now)]
    /\ IF natFire[j].busy
       THEN UNCHANGED <<rows, natFire>>
       ELSE /\ \E dbOk \in BOOLEAN :
                 rows' = _update_last_fired(rows, timers[j].job_name, now, dbOk)
            /\ natFire' = [natFire EXCEPT ![j] =
                 [busy |-> TRUE, job_id |-> j, job_name |-> timers[j].job_name,
                  expected |-> now, late |-> 0, fired |-> now,
                  rowActive |-> j \in ActiveRows(rows)]]
    /\ UNCHANGED <<now, running, missedJobs, recFire, published, dueAtStart, staleAtStart, recCount, jobLimit, crashes>>
    /\ UNCHANGED nonSchedVars

\* _fire_event of the timer hands the ScheduledEvent to event_bus.publish.
TimerFirePublish(j) ==
    /\ running
    /\ natFire[j].busy
    /\ published' = published \cup {
            [job_id |-> j, expected |-> natFire[j].expected,
             late |-> natFire[j].late, kind |-> "timer"]}
    /\ natFire' = [natFire EXCEPT ![j] = NoFire]
    /\ UNCHANGED <<now, running, rows, timers, missedJobs, recFire, dueAtStart, staleAtStart, recCount, dispatched, jobLimit, crashes>>
    /\ UNCHANGED nonSchedVars

\* The scheduler is handed to the bot (deps["scheduler"]) only after
\* start() has returned: the scheduler tools reach add_job, remove_job and
\* list_jobs only from then on.
SchedulerInDeps == running /\ missedJobs = <<>> /\ ~recFire.busy

\* list_jobs: SELECT * FROM scheduled_jobs WHERE is_active = 1
\* ORDER BY created_at.
list_jobs(table) == SelectSeq2(JobOrder, ActiveRows(table))

\* A row the INSERT of which failed: it is not in the table; the record
\* only keeps the id the timer generated for the job as used.
UnsavedRow(job_name) == [NoRow EXCEPT !.job_name = job_name]

\* The id the timer generates for the next job (ids are never reused).
NextJobId ==
    IF \A k \in 1..Len(JobOrder) : rows[JobOrder[k]] # NoRow THEN None
    ELSE JobOrder[Min({k \in 1..Len(JobOrder) : rows[JobOrder[k]] = NoRow})]

\* Job names are arbitrary labels: a new job reuses a name already in the
\* table or takes the first name not yet used.
UsedNames == {rows[j].job_name : j \in {k \in JobIds : rows[k].present}}
FreshNames ==
    UsedNames \cup
    (IF \A k \in 1..Len(NameOrder) : NameOrder[k] \in UsedNames THEN {}
     ELSE {NameOrder[Min({k \in 1..Len(NameOrder) : NameOrder[k] \notin UsedNames})]})

\* add_job: register the trigger with the timer, then persist the row
\* (_save_job); a failing INSERT raises out of add_job with the timer
\* registration made.
add_job(j, job_name, cron) ==
    /\ SchedulerInDeps
    /\ IF ParseCrontabRaises(cron)
       THEN \* raised before anything is registered or saved, whatever
            \* the other arguments are
            /\ j = JobOrder[1]
            /\ job_name = NameOrder[1]
            /\ apiCall' = [op |-> "add_job", job |-> None, cron |-> cron,
                           live |-> FALSE, raised |-> TRUE]
            /\ UNCHANGED <<timers, rows>>
       ELSE /\ j = NextJobId
            /\ Cardinality({k \in JobIds : rows[k] # NoRow}) < jobLimit
            /\ job_name \in FreshNames
            /\ timers' = [timers EXCEPT ![j] =
                    [registered |-> TRUE, job_name |-> job_name, cron |-> cron,
                     next_run_time |-> NextFireTime(cron, now)]]
            /\ \E dbOk \in BOOLEAN :
                 /\ rows' = IF dbOk
                            THEN [rows EXCEPT ![j] =
                                    [present |-> TRUE, job_name |-> job_name,
                                     cron |-> cron, is_active |-> TRUE,
                                     last_fired_at |-> NoTime]]
                            ELSE [rows EXCEPT ![j] = UnsavedRow(job_name)]
                 /\ apiCall' = [op |-> "add_job", job |-> j, cron |-> cron,
                                live |-> FALSE, raised |-> ~dbOk]
    /\ UNCHANGED <<now, running, missedJobs, recFire, natFire, published,
                   dueAtStart, staleAtStart, recCount, dispatched, jobLimit, crashes>>
    /\ UNCHANGED nonSchedApiVars

\* _delete_job: UPDATE scheduled_jobs SET is_active = 0 WHERE job_id = ?
_delete_job(row) ==
    IF row.present THEN [row EXCEPT !.is_active = FALSE] ELSE row

\* remove_job without the try/except around the timer removal: a missing
\* registration raises before the row is touched.
remove_job_unguarded(j) ==
    /\ SchedulerInDeps
    /\ IF timers[j].registered
       THEN /\ timers' = [timers EXCEPT ![j] = NoTimer]
            /\ rows' = [rows EXCEPT ![j] = _delete_job(rows[j])]
            /\ apiCall' = [op |-> "remove_job", job |-> j, cron |-> None,
                           live |-> TRUE, raised |-> FALSE]
       ELSE /\ apiCall' = [op |-> "remove_job", job |-> j, cron |-> None,
                           live |-> FALSE, raised |-> TRUE]
            /\ UNCHANGED <<timers, rows>>
    /\ UNCHANGED <<now, running, missedJobs, recFire, natFire, published,
                   dueAtStart, staleAtStart, recCount, dispatched, jobLimit, crashes>>
    /\ UNCHANGED nonSchedApiVars

\* remove_job: unregister the timer (a missing registration is ignored),
\* then soft-delete the row; returns True.
remove_job(j) ==
    /\ SchedulerInDeps
    /\ timers' = [timers EXCEPT ![j] = NoTimer]
    /\ rows' = [rows EXCEPT ![j] = _delete_job(rows[j])]
    /\ apiCall' = [op |-> "remove_job", job |-> j, cron |-> None,
                   live |-> timers[j].registered, raised |-> FALSE]
    /\ UNCHANGED <<now, running, missedJobs, recFire, natFire, published,
                   dueAtStart, staleAtStart, recCount, dispatched, jobLimit, crashes>>
    /\ UNCHANGED nonSchedApiVars

\* The process dies and stays down for d minutes: everything in memory is
\* lost, the table is kept.
Crash(d) ==
    /\ running
    /\ crashes < MaxCrashes
    /\ crashes' = crashes + 1
    /\ now + d <= MaxNow
    /\ now' = now + d
    /\ running' = FALSE
    /\ timers' = [j \in JobIds |-> NoTimer]
    /\ missedJobs' = <<>>
    /\ recFire' = NoFire
    /\ natFire' = [j \in JobIds |-> NoFire]
    /\ apiCall' = NoApiCall
    /\ UNCHANGED <<rows, published, dueAtStart, staleAtStart,
                   recCount, dispatched, jobLimit>>
    /\ UNCHANGED nonSchedApiVars

\* Time passes while the process runs: the timer sleeps until the earliest
\* registered fire time and never oversleeps it.
RegisteredRunTimes ==
    {timers[j].next_run_time : j \in {k \in JobIds : timers[k].registered}}

TimePasses ==
    /\ running
    /\ RegisteredRunTimes # {}
    /\ now < Min(RegisteredRunTimes)
    /\ now' = Min(RegisteredRunTimes)
    /\ now' <= MaxNow
    /\ apiCall' = NoApiCall
    /\ UNCHANGED <<running, rows, timers, missedJobs, recFire, natFire,
                   published, dueAtStart, staleAtStart, recCount,
                   dispatched, jobLimit, crashes>>
    /\ UNCHANGED nonSchedApiVars

NextSched ==
    \/ start
    \/ RecoveryFireRecord
    \/ RecoveryFirePublish
    \/ \E j \in JobIds : TimerFire(j)
    \/ \E j \in JobIds : TimerFirePublish(j)
    \/ \E j \in JobIds, n \in JobNames, c \in Crons \cup MalformedCrons : add_job(j, n, c)
    \/ \E j \in JobIds : remove_job(j)
    \/ \E d \in DownSteps : Crash(d)
    \/ TimePasses

(***************************************************************************)
(* Channel routing state of MessageOrchestrator                            *)
(*                                                                         *)
(* Handlers are coroutines on one event loop: each action below is the     *)
(* code between two suspension points (awaits) of one handler, so actions  *)
(* of different handlers interleave exactly where the code awaits.         *)
(***************************************************************************)

\* Bounds: events taken in, process restarts.
MaxTurns == 2
MaxRestarts == 1

Users == {"u1", "u2"}
default_user_id == "u1"
Channels == {"c1", "c2"}
HandlerIds == {"h1", "h2"}
HandlerOrder == <<"h1", "h2">>

\* Paths are sequences of components.
NoPath == <<>>
approved_directory == <<"work">>
RepoNames == {"p1", "p2", "tmp"}
ProjectSlug(c) == IF c = "c1" THEN "p1" ELSE "p2"
\* project.absolute_path of the project bound to channel c
ProjectRoot(c) == approved_directory \o <<ProjectSlug(c)>>
Directories == {approved_directory} \cup {ProjectRoot(c) : c \in Channels}

is_dir(path) == path \in Directories

_is_within(path, root) ==
    /\ Len(path) >= Len(root)
    /\ SubSeq(path, 1, Len(root)) = root

NoTs == 0

\* A session id names the agent turn that created it.
NoSession == [n |-> 0, channel |-> None, dir |-> NoPath]

\* state.get(...) on a channel without an entry yields nothing for every key
NoChanState == [current_directory |-> NoPath, claude_session_id |-> NoSession,
                project_slug |-> None, last_response_ts |-> NoTs]

NoUserState == [current_directory |-> NoPath, claude_session_id |-> NoSession,
                last_response_ts |-> NoTs, force_new_session |-> FALSE,
                channel_state |-> [c \in Channels |-> NoChanState]]

NoHandler == [pc |-> "idle", kind |-> None, user |-> None, channel |-> None,
              n |-> 0, state |-> NoChanState, current_dir |-> NoPath,
              session_id |-> NoSession, force_new |-> FALSE, exit |-> None,
              mapped |-> FALSE]

\* No call of _persist_channel_state was made for the event yet.
NoSave == [count |-> 0, exit |-> None]

RouteInit ==
    /\ userStates = [u \in Users |-> NoUserState]
    /\ dbLastTs = [c \in Channels |-> NoTs]
    /\ handlers = [h \in HandlerIds |-> NoHandler]
    /\ agentSessions = {}
    /\ lastSaved = [c \in Channels |-> NoChanState]
    /\ saves = [n \in 1..MaxTurns |-> NoSave]
    /\ lastBotTs = [c \in Channels |-> NoTs]
    /\ newPending = [u \in Users |-> [c \in Channels |-> FALSE]]
    /\ turns = 0
    /\ restarts = 0

\* The coroutine slot the next event is handled in.
FreeHandler ==
    LET idle == {i \in 1..Len(HandlerOrder) : handlers[HandlerOrder[i]].pc = "idle"}
    IN  IF idle = {} THEN None ELSE HandlerOrder[Min(idle)]

\* _apply_channel_routing_context and _persist_channel_state: a directory
\* outside the project root, or not a directory, becomes the project root.
ClampToRoot(dir, root) ==
    IF dir = NoPath \/ ~_is_within(dir, root) \/ ~is_dir(dir) THEN root ELSE dir

\* the three flat keys written at the end of _apply_channel_routing_context
LoadFlatKeys(us, state, dir, ts) ==
    [us EXCEPT !.current_directory = dir,
               !.claude_session_id = state.claude_session_id,
               !.last_response_ts = ts]

\* An inbound event (message or /repo command) of user u in channel c:
\* _inject_deps.wrapped up to the first suspension of the routing load.
_apply_channel_routing_context(h, u, c, kind) ==
    /\ h = FreeHandler
    /\ turns < MaxTurns
    /\ LET state == userStates[u].channel_state[c]
           dir   == ClampToRoot(state.current_directory, ProjectRoot(c))
           rec   == [NoHandler EXCEPT !.kind = kind, !.user = u, !.channel = c,
                                      !.n = turns + 1, !.state = state,
                                      !.current_dir = dir, !.mapped = TRUE]
       IN  IF state.last_response_ts = NoTs
           THEN \* await repo.get_last_response_ts(channel_id)
                /\ handlers' = [handlers EXCEPT ![h] = [rec EXCEPT !.pc = "apply_db"]]
                /\ UNCHANGED userStates
           ELSE /\ handlers' = [handlers EXCEPT ![h] =
                       [rec EXCEPT !.pc = "handler", !.state = NoChanState,
                                   !.current_dir = NoPath]]
                /\ userStates' = [userStates EXCEPT ![u] =
                       LoadFlatKeys(@, state, dir, state.last_response_ts)]
    /\ turns' = turns + 1
    /\ UNCHANGED <<dbLastTs, agentSessions, lastSaved, saves, lastBotTs, newPending, restarts>>
    /\ UNCHANGED nonRouteVars

\* The wrapper going on to the handler although resolve_project found no
\* project.
_apply_channel_routing_context_rejects_ignored(h, u, c, kind) ==
    /\ h = FreeHandler
    /\ turns < MaxTurns
    /\ handlers' = [handlers EXCEPT ![h] =
           [NoHandler EXCEPT !.pc = "handler", !.kind = kind, !.user = u,
                             !.channel = c, !.n = turns + 1]]
    /\ turns' = turns + 1
    /\ UNCHANGED <<userStates, dbLastTs, agentSessions, lastSaved, saves, lastBotTs,
                   newPending, restarts>>
    /\ UNCHANGED nonRouteVars

\* An inbound event of user u in channel c for which resolve_project finds
\* no enabled project: _apply_channel_routing_context returns False and the
\* wrapper says "This channel is not configured for a project.".
_apply_channel_routing_context_rejects(h, u, c, kind) ==
    /\ h = FreeHandler
    /\ turns < MaxTurns
    /\ handlers' = [handlers EXCEPT ![h] =
           [NoHandler EXCEPT !.pc = "rejected", !.kind = kind, !.user = u,
                             !.channel = c, !.n = turns + 1]]
    /\ turns' = turns + 1
    /\ UNCHANGED <<userStates, dbLastTs, agentSessions, lastSaved, saves, lastBotTs,
                   newPending, restarts>>
    /\ UNCHANGED nonRouteVars

\* say(...) of the rejection returned or raised: the wrapper returns.
wrapped_rejected(h) ==
    /\ handlers[h].pc = "rejected"
    /\ handlers' = [handlers EXCEPT ![h] = NoHandler]
    /\ UNCHANGED <<userStates, dbLastTs, agentSessions, lastSaved, saves, lastBotTs,
                   newPending, turns, restarts>>
    /\ UNCHANGED nonRouteVars

\* /start of user u in channel c: the wrapper calls agentic_start without
\* the routing load, whether the channel has a project or not.
wrapped_start(h, u, c, mapped) ==
    /\ h = FreeHandler
    /\ turns < MaxTurns
    /\ handlers' = [handlers EXCEPT ![h] =
           [NoHandler EXCEPT !.pc = "start_say", !.kind = "start", !.user = u,
                             !.channel = c, !.n = turns + 1, !.mapped = mapped]]
    /\ turns' = turns + 1
    /\ UNCHANGED <<userStates, dbLastTs, agentSessions, lastSaved, saves, lastBotTs,
                   newPending, restarts>>
    /\ UNCHANGED nonRouteVars

\* agentic_start has said its welcome (or the say raised): the wrapper
\* returns without storing the channel's entry.
agentic_start(h) ==
    /\ handlers[h].pc = "start_say"
    /\ handlers' = [handlers EXCEPT ![h] = NoHandler]
    /\ UNCHANGED <<userStates, dbLastTs, agentSessions, lastSaved, saves, lastBotTs,
                   newPending, turns, restarts>>
    /\ UNCHANGED nonRouteVars

\* The routing load resumes after the database read and writes the flat keys
\* from the state it read before suspending.
_apply_channel_routing_context_resume(h) ==
    /\ handlers[h].pc = "apply_db"
    /\ LET u == handlers[h].user
           c == handlers[h].channel
       IN  userStates' = [userStates EXCEPT ![u] =
               LoadFlatKeys(@, handlers[h].state, handlers[h].current_dir, dbLastTs[c])]
    /\ handlers' = [handlers EXCEPT ![h].pc = "handler", ![h].state = NoChanState,
                                    ![h].current_dir = NoPath]
    /\ UNCHANGED <<dbLastTs, agentSessions, lastSaved, saves, lastBotTs, newPending, turns, restarts>>
    /\ UNCHANGED nonRouteVars

\* agentic_text after "Working..." has been posted: read the flat keys and
\* call run_command with them.
agentic_text(h) ==
    /\ handlers[h].pc = "handler"
    /\ handlers[h].kind = "text"
    /\ LET us == userStates[handlers[h].user]
       IN  handlers' = [handlers EXCEPT
               ![h].pc = "agent",
               ![h].current_dir = IF us.current_directory = NoPath
                                  THEN approved_directory
                                  ELSE us.current_directory,
               ![h].session_id = us.claude_session_id,
               ![h].force_new = us.force_new_session]
    /\ UNCHANGED <<userStates, dbLastTs, agentSessions, lastSaved, saves, lastBotTs, newPending, turns, restarts>>
    /\ UNCHANGED nonRouteVars

\* The session ids run_command may answer with: the session it was asked to
\* resume, or a new one created by this turn.
RunCommandSessions(h) ==
    {[n |-> handlers[h].n, channel |-> handlers[h].channel,
      dir |-> handlers[h].current_dir]}
    \cup (IF handlers[h].session_id = NoSession THEN {} ELSE {handlers[h].session_id})

\* run_command returns to agentic_text: a one-shot force_new flag is cleared
\* and the returned session id kept.
agentic_text_response(h) == \E sid \in RunCommandSessions(h) :
    /\ handlers[h].pc = "agent"
    /\ handlers[h].kind = "text"
    /\ userStates' = [userStates EXCEPT
           ![handlers[h].user].claude_session_id = sid,
           ![handlers[h].user].force_new_session =
               IF handlers[h].force_new THEN FALSE ELSE @]
    /\ agentSessions' = agentSessions \cup {sid}
    /\ newPending' = [newPending EXCEPT ![handlers[h].user][handlers[h].channel] = FALSE]
    /\ handlers' = [handlers EXCEPT ![h].pc = "reply"]
    /\ UNCHANGED <<dbLastTs, lastSaved, saves, lastBotTs, turns, restarts>>
    /\ UNCHANGED nonRouteVars

\* run_command raises: agentic_text catches the exception and goes on to
\* post the error text.
agentic_text_run_raises(h) ==
    /\ handlers[h].pc = "agent"
    /\ handlers[h].kind = "text"
    /\ handlers' = [handlers EXCEPT ![h].pc = "reply"]
    /\ UNCHANGED <<userStates, dbLastTs, agentSessions, lastSaved, saves, lastBotTs,
                   newPending, turns, restarts>>
    /\ UNCHANGED nonRouteVars

\* Slack stamps a message with the time it is posted: later than every
\* message posted before.
NextSlackTs == 1 + Max({lastBotTs[c] : c \in Channels})

\* The reply has been posted: remember its timestamp in memory and in the
\* database (a failing database write is swallowed).
agentic_text_reply(h, dbOk) ==
    /\ handlers[h].pc = "reply"
    /\ lastBotTs' = [lastBotTs EXCEPT ![handlers[h].channel] = NextSlackTs]
    /\ userStates' = [userStates EXCEPT
           ![handlers[h].user].last_response_ts = NextSlackTs]
    /\ dbLastTs' = IF dbOk THEN [dbLastTs EXCEPT ![handlers[h].channel] = NextSlackTs]
                   ELSE dbLastTs
    /\ handlers' = [handlers EXCEPT ![h].pc = "persist", ![h].exit = "returned"]
    /\ UNCHANGED <<agentSessions, lastSaved, saves, newPending, turns, restarts>>
    /\ UNCHANGED nonRouteVars

\* /new after ack(): drop the session id and ask for a new session.
agentic_new(h) ==
    /\ handlers[h].pc = "handler"
    /\ handlers[h].kind = "new"
    /\ userStates' = [userStates EXCEPT
           ![handlers[h].user].claude_session_id = NoSession,
           ![handlers[h].user].force_new_session = TRUE]
    /\ newPending' = [newPending EXCEPT ![handlers[h].user][handlers[h].channel] = TRUE]
    /\ handlers' = [handlers EXCEPT ![h].pc = "new_say"]
    /\ UNCHANGED <<dbLastTs, agentSessions, lastSaved, saves, lastBotTs, turns, restarts>>
    /\ UNCHANGED nonRouteVars

\* say("Session reset. What's next?") returned.
agentic_new_said(h) ==
    /\ handlers[h].pc = "new_say"
    /\ handlers' = [handlers EXCEPT ![h].pc = "persist", ![h].exit = "returned"]
    /\ UNCHANGED <<userStates, dbLastTs, agentSessions, lastSaved, saves, lastBotTs,
                   newPending, turns, restarts>>
    /\ UNCHANGED nonRouteVars

\* /repo <name> after ack(): switch the flat directory to approved/name.
agentic_repo(h, name) ==
    /\ handlers[h].pc = "handler"
    /\ handlers[h].kind = "repo"
    /\ LET target_path == approved_directory \o <<name>>
       IN  IF ~is_dir(target_path)
           THEN \* "Directory not found"
                /\ handlers' = [handlers EXCEPT ![h].pc = "persist", ![h].exit = "early"]
                /\ UNCHANGED userStates
           ELSE /\ userStates' = [userStates EXCEPT
                       ![handlers[h].user].current_directory = target_path]
                /\ handlers' = [handlers EXCEPT ![h].pc = "repo_find",
                                                ![h].current_dir = target_path]
    /\ UNCHANGED <<dbLastTs, agentSessions, lastSaved, saves, lastBotTs, newPending, turns, restarts>>
    /\ UNCHANGED nonRouteVars

\* _find_resumable_session has answered: a session of that directory, or none.
ResumableSessions(h) ==
    {NoSession} \cup {s \in agentSessions : s.dir = handlers[h].current_dir}

agentic_repo_resume(h) == \E sid \in ResumableSessions(h) :
    /\ handlers[h].pc = "repo_find"
    /\ userStates' = [userStates EXCEPT ![handlers[h].user].claude_session_id = sid]
    /\ handlers' = [handlers EXCEPT ![h].pc = "persist", ![h].exit = "returned"]
    /\ UNCHANGED <<dbLastTs, agentSessions, lastSaved, saves, lastBotTs, newPending, turns, restarts>>
    /\ UNCHANGED nonRouteVars

\* A call the handler awaits fails (a Slack call, the agent run): when the
\* handler is resumed the exception propagates through it to the
\* finally-block of the wrapper.
handler_raises(h) ==
    /\ handlers[h].pc \in {"handler", "agent", "reply", "repo_find", "new_say"}
    /\ handlers[h].kind \in {"text", "repo", "new"}
    /\ handlers' = [handlers EXCEPT ![h].pc = "persist", ![h].exit = "raised"]
    /\ UNCHANGED <<userStates, dbLastTs, agentSessions, lastSaved, saves, lastBotTs, newPending, turns, restarts>>
    /\ UNCHANGED nonRouteVars

\* The wrapper without its try/finally: the state is stored after a handler
\* that returned, and not after one that raised.
_persist_channel_state_no_finally(h) ==
    /\ handlers[h].pc = "persist"
    /\ LET u  == handlers[h].user
           c  == handlers[h].channel
           us == userStates[u]
           saved == [current_directory |->
                         ClampToRoot(us.current_directory, ProjectRoot(c)),
                     claude_session_id |-> us.claude_session_id,
                     project_slug |-> ProjectSlug(c),
                     last_response_ts |-> us.last_response_ts]
       IN  IF handlers[h].exit = "raised"
           THEN UNCHANGED <<userStates, lastSaved, saves>>
           ELSE /\ userStates' = [userStates EXCEPT ![u].channel_state[c] = saved]
                /\ lastSaved' = [lastSaved EXCEPT ![c] = saved]
                /\ saves' = [saves EXCEPT ![handlers[h].n] =
                                 [count |-> @.count + 1, exit |-> handlers[h].exit]]
    /\ handlers' = [handlers EXCEPT ![h] = NoHandler]
    /\ UNCHANGED <<dbLastTs, agentSessions, turns, restarts, lastBotTs, newPending>>
    /\ UNCHANGED nonRouteVars

\* The finally-block of _inject_deps.wrapped: copy the flat keys back into
\* the channel's entry.
_persist_channel_state(h) ==
    /\ handlers[h].pc = "persist"
    /\ LET u  == handlers[h].user
           c  == handlers[h].channel
           us == userStates[u]
           saved == [current_directory |->
                         ClampToRoot(us.current_directory, ProjectRoot(c)),
                     claude_session_id |-> us.claude_session_id,
                     project_slug |-> ProjectSlug(c),
                     last_response_ts |-> us.last_response_ts]
       IN  /\ userStates' = [userStates EXCEPT ![u].channel_state[c] = saved]
           /\ lastSaved' = [lastSaved EXCEPT ![c] = saved]
    /\ saves' = [saves EXCEPT ![handlers[h].n] =
                     [count |-> @.count + 1, exit |-> handlers[h].exit]]
    /\ handlers' = [handlers EXCEPT ![h] = NoHandler]
    /\ UNCHANGED <<dbLastTs, agentSessions, turns, restarts, lastBotTs, newPending>>
    /\ UNCHANGED nonRouteVars

\* A scheduled prompt for channel c: load the channel's entry of the default
\* user, post "Working..." and call run_command with the values just read.
run_scheduled_prompt(h, c) ==
    /\ h = FreeHandler
    /\ turns < MaxTurns
    /\ LET u     == default_user_id
           state == userStates[u].channel_state[c]
           dir   == IF state.current_directory # NoPath /\ is_dir(state.current_directory)
                    THEN state.current_directory
                    ELSE ProjectRoot(c)
       IN  /\ userStates' = [userStates EXCEPT
                  ![u].current_directory = dir,
                  ![u].claude_session_id = state.claude_session_id]
           /\ handlers' = [handlers EXCEPT ![h] =
                  [NoHandler EXCEPT !.pc = "agent", !.kind = "sched", !.user = u,
                                    !.channel = c, !.n = turns + 1, !.mapped = TRUE,
                                    !.current_dir = dir,
                                    !.session_id = state.claude_session_id]]
    /\ turns' = turns + 1
    /\ UNCHANGED <<dbLastTs, agentSessions, lastSaved, saves, lastBotTs, newPending, restarts>>
    /\ UNCHANGED nonRouteVars

\* run_command returns to run_scheduled_prompt, which stores directory and
\* session id (and nothing else) as the channel's entry.
run_scheduled_prompt_response(h) == \E sid \in RunCommandSessions(h) :
    /\ handlers[h].pc = "agent"
    /\ handlers[h].kind = "sched"
    /\ LET u == handlers[h].user
           c == handlers[h].channel
       IN  /\ userStates' = [userStates EXCEPT
                  ![u].claude_session_id = sid,
                  ![u].channel_state[c] =
                      [NoChanState EXCEPT !.current_directory = handlers[h].current_dir,
                                          !.claude_session_id = sid]]
           /\ lastSaved' = [lastSaved EXCEPT ![c] = NoChanState]
    /\ agentSessions' = agentSessions \cup {sid}
    /\ lastBotTs' = [lastBotTs EXCEPT ![handlers[h].channel] = NextSlackTs]
    /\ newPending' = [newPending EXCEPT ![handlers[h].user][handlers[h].channel] = FALSE]
    /\ handlers' = [handlers EXCEPT ![h] = NoHandler]
    /\ UNCHANGED <<dbLastTs, saves, turns, restarts>>
    /\ UNCHANGED nonRouteVars

\* The bot process is restarted: everything held in memory is gone, the
\* database and the agent's sessions remain.
RestartProcess ==
    /\ restarts < MaxRestarts
    /\ turns > 0
    /\ userStates' = [u \in Users |-> NoUserState]
    /\ handlers' = [h \in HandlerIds |-> NoHandler]
    /\ restarts' = restarts + 1
    /\ UNCHANGED <<dbLastTs, agentSessions, lastSaved, saves, lastBotTs, newPending, turns>>
    /\ UNCHANGED nonRouteVars

NextRoute ==
    \/ \E h \in HandlerIds, u \in Users, c \in Channels, k \in {"text", "repo", "new"} :
           _apply_channel_routing_context(h, u, c, k)
    \/ \E h \in HandlerIds, u \in Users, c \in Channels, k \in {"text", "repo", "new"} :
           _apply_channel_routing_context_rejects(h, u, c, k)
    \/ \E h \in HandlerIds : wrapped_rejected(h)
    \/ \E h \in HandlerIds, u \in Users, c \in Channels, mapped \in BOOLEAN :
           wrapped_start(h, u, c, mapped)
    \/ \E h \in HandlerIds : agentic_start(h)
    \/ \E h \in HandlerIds : _apply_channel_routing_context_resume(h)
    \/ \E h \in HandlerIds : agentic_text(h)
    \/ \E h \in HandlerIds : agentic_text_response(h)
    \/ \E h \in HandlerIds : agentic_text_run_raises(h)
    \/ \E h \in HandlerIds : agentic_new(h)
    \/ \E h \in HandlerIds : agentic_new_said(h)
    \/ \E h \in HandlerIds, dbOk \in BOOLEAN : agentic_text_reply(h, dbOk)
    \/ \E h \in HandlerIds, name \in RepoNames : agentic_repo(h, name)
    \/ \E h \in HandlerIds : agentic_repo_resume(h)
    \/ \E h \in HandlerIds : handler_raises(h)
    \/ \E h \in HandlerIds : _persist_channel_state(h)
    \/ \E h \in HandlerIds, c \in Channels : run_scheduled_prompt(h, c)
    \/ \E h \in HandlerIds : run_scheduled_prompt_response(h)
    \/ RestartProcess

(***************************************************************************)
(* The AskUserQuestion rendezvous                                          *)
(*                                                                         *)
(* _ask_user registers an entry {event, answers, questions} under the key  *)
(* "channel:user", posts the buttons and waits for the entry's event; the  *)
(* button handler looks the entry up by key, stores the answer and sets    *)
(* the event.  Every ask creates its own entry object, so the entry is     *)
(* kept in the ask's record and the table maps a key to the ask whose      *)
(* entry is registered under it.                                           *)
(***************************************************************************)

\* Bound of the clock, seconds.
MaxClock == 600

AskTimeoutSeconds == 300

\* The clock moves by this step, or to the next deadline.
TickSteps == {299}

AskIds == {"a1", "a2"}
AskOrder == <<"a1", "a2">>
ClickIds == {"b1", "b2"}
ClickOrder == <<"b1", "b2">>
InteractionKeys == {"c1:u1", "c2:u1"}
\* the user_id of an interaction key f"{channel}:{user_id}"
KeyUser(key) == "u1"
ButtonValues == {"yes", "no"}
QuestionLists == {<<>>, <<"q1", "q2">>}

\* answers is a dict question text -> value: a set of pairs, one per question
NoAnswers == {}

NoAsk == [pc |-> "idle", key |-> None, questions |-> <<>>,
          event |-> FALSE, answers |-> NoAnswers,
          posted |-> FALSE, deadline |-> 0,
          result |-> NoAnswers, permission |-> None, returned_at |-> 0,
          clicked |-> {}, overlap |-> FALSE]

\* `by` is body["user"]["id"] of a click being handled (the user who
\* clicked): the handler never reads it
NoClick == [pc |-> "idle", key |-> None, value |-> None, pending |-> None,
            by |-> None]

AskInit ==
    /\ clock = 0
    /\ _pending_questions = [k \in InteractionKeys |-> None]
    /\ asks = [a \in AskIds |-> NoAsk]
    /\ clicks = [b \in ClickIds |-> NoClick]

FreeAsk ==
    LET idle == {i \in 1..Len(AskOrder) : asks[AskOrder[i]].pc = "idle"}
    IN  IF idle = {} THEN None ELSE AskOrder[Min(idle)]

FreeClick ==
    LET idle == {i \in 1..Len(ClickOrder) : clicks[ClickOrder[i]].pc = "idle"}
    IN  IF idle = {} THEN None ELSE ClickOrder[Min(idle)]

\* What _can_use_tool hands to the agent for an AskUserQuestion call.
_can_use_tool(raised, answers) ==
    IF raised THEN "deny"
    ELSE IF answers # NoAnswers THEN "allow_updated_input"
    ELSE "allow"

\* The ask returns `answers` to _can_use_tool.
AskReturn(a, answers) ==
    [asks[a] EXCEPT !.pc = "returned", !.result = answers,
                    !.permission = _can_use_tool(FALSE, answers),
                    !.returned_at = clock]

\* The ask raises (KeyError of a del or lookup on a missing key).
AskRaise(a) ==
    [asks[a] EXCEPT !.pc = "raised", !.permission = _can_use_tool(TRUE, NoAnswers),
                    !.returned_at = clock]

\* _ask_user up to the await of chat_postMessage.
_ask_user(a, key, questions) ==
    /\ a = FreeAsk
    /\ clock + AskTimeoutSeconds <= MaxClock
    /\ IF questions = <<>>
       THEN /\ asks' = [asks EXCEPT ![a] = [AskReturn(a, NoAnswers) EXCEPT !.key = key]]
            /\ UNCHANGED _pending_questions
       ELSE LET other == _pending_questions[key]
                mine  == [NoAsk EXCEPT !.pc = "posting", !.key = key,
                                       !.questions = questions,
                                       !.overlap = (other # None)]
            IN  /\ _pending_questions' = [_pending_questions EXCEPT ![key] = a]
                /\ asks' = [b \in AskIds |->
                               IF b = a THEN mine
                               ELSE IF b = other THEN [asks[b] EXCEPT !.overlap = TRUE]
                               ELSE asks[b]]
    /\ UNCHANGED <<clock, clicks>>
    /\ UNCHANGED nonAskVars

\* chat_postMessage returned: start waiting for the event, at most 300 s.
_ask_user_posted(a) ==
    /\ asks[a].pc = "posting"
    /\ asks' = [asks EXCEPT ![a].pc = "waiting", ![a].posted = TRUE,
                            ![a].deadline = clock + AskTimeoutSeconds]
    /\ UNCHANGED <<clock, _pending_questions, clicks>>
    /\ UNCHANGED nonAskVars

\* del self._pending_questions[interaction_key], then return `answers`
DeleteAndReturn(a, answers) ==
    IF _pending_questions[asks[a].key] = None
    THEN /\ asks' = [asks EXCEPT ![a] = AskRaise(a)]
         /\ UNCHANGED _pending_questions
    ELSE /\ asks' = [asks EXCEPT ![a] = AskReturn(a, answers)]
         /\ _pending_questions' = [_pending_questions EXCEPT ![asks[a].key] = None]

\* chat_postMessage raised.
_ask_user_post_failed(a) ==
    /\ asks[a].pc = "posting"
    /\ DeleteAndReturn(a, NoAnswers)
    /\ UNCHANGED <<clock, clicks>>
    /\ UNCHANGED nonAskVars

\* wait_for ran into its timeout.
_ask_user_timeout(a) ==
    /\ asks[a].pc = "waiting"
    /\ ~asks[a].event
    /\ clock = asks[a].deadline
    /\ DeleteAndReturn(a, NoAnswers)
    /\ UNCHANGED <<clock, clicks>>
    /\ UNCHANGED nonAskVars

\* The event was set: return the answers of the entry registered under the key.
_ask_user_answered(a) ==
    /\ asks[a].pc = "waiting"
    /\ asks[a].event
    /\ LET registered == _pending_questions[asks[a].key]
       IN  DeleteAndReturn(a, IF registered = None THEN NoAnswers
                              ELSE asks[registered].answers)
    /\ UNCHANGED <<clock, clicks>>
    /\ UNCHANGED nonAskVars

\* The agent turn that called the ask is cancelled by its own timeout
\* (asyncio.wait_for around _run_client) while the ask is suspended in an
\* await: CancelledError passes through both except clauses of _ask_user,
\* so no del runs.
_ask_user_cancelled(a) ==
    /\ asks[a].pc \in {"posting", "waiting"}
    /\ asks' = [asks EXCEPT ![a].pc = "cancelled", ![a].returned_at = clock]
    /\ UNCHANGED <<clock, _pending_questions, clicks>>
    /\ UNCHANGED nonAskVars

\* A button of a posted prompt is clicked: _ask_user_action_handler after
\* ack(), up to the await of chat_update.
_ask_user_action_handler(b, key, value, by) ==
    /\ b = FreeClick
    /\ \E a \in AskIds : asks[a].key = key /\ (asks[a].pc = "posting" \/ asks[a].posted)
    /\ LET pending == _pending_questions[key]
       IN  IF pending = None
           THEN /\ clicks' = [clicks EXCEPT ![b] =
                       [pc |-> "done", key |-> key, value |-> value, pending |-> None,
                        by |-> None]]
                /\ UNCHANGED asks
           ELSE /\ clicks' = [clicks EXCEPT ![b] =
                       [pc |-> "updating", key |-> key, value |-> value,
                        pending |-> pending, by |-> by]]
                /\ asks' = [asks EXCEPT ![pending].clicked =
                       IF asks[pending].pc = "posting" \/ clock < asks[pending].deadline
                       THEN @ \cup {value} ELSE @]
    /\ UNCHANGED <<clock, _pending_questions>>
    /\ UNCHANGED nonAskVars

\* chat_update returned (or raised): store the answer under the first
\* question's text and set the event of the entry looked up before.
_ask_user_action_handler_resume(b) ==
    /\ clicks[b].pc = "updating"
    /\ LET pending == clicks[b].pending
           questions == asks[pending].questions
       IN  asks' = [asks EXCEPT
               ![pending].answers =
                   IF questions # <<>>
                   THEN {p \in @ : p[1] # questions[1]} \cup {<<questions[1], clicks[b].value>>}
                   ELSE @,
               ![pending].event = TRUE]
    /\ clicks' = [clicks EXCEPT ![b].pc = "done", ![b].by = None]
    /\ UNCHANGED <<clock, _pending_questions>>
    /\ UNCHANGED nonAskVars

\* Deadlines of the asks still waiting for their event.
LiveDeadlines == {asks[a].deadline : a \in {x \in AskIds : asks[x].pc = "waiting" /\ ~asks[x].event}}

\* Time passes; a timeout fires at its deadline and a set event wakes its
\* waiter before the clock moves on.
AskTimePasses == \E t \in {clock + d : d \in TickSteps} \cup LiveDeadlines :
    /\ t > clock
    /\ t <= MaxClock
    /\ \A d \in LiveDeadlines : t <= d
    /\ ~\E a \in AskIds : asks[a].pc = "waiting" /\ asks[a].event
    /\ clock' = t
    /\ UNCHANGED <<_pending_questions, asks, clicks>>
    /\ UNCHANGED nonAskVars

NextAsk ==
    \/ \E a \in AskIds, k \in InteractionKeys, q \in QuestionLists : _ask_user(a, k, q)
    \/ \E a \in AskIds : _ask_user_posted(a)
    \/ \E a \in AskIds : _ask_user_post_failed(a)
    \/ \E a \in AskIds : _ask_user_timeout(a)
    \/ \E a \in AskIds : _ask_user_answered(a)
    \/ \E a \in AskIds : _ask_user_cancelled(a)
    \/ \E b \in ClickIds, k \in InteractionKeys, v \in ButtonValues, by \in Users :
           _ask_user_action_handler(b, k, v, by)
    \/ \E b \in ClickIds : _ask_user_action_handler_resume(b)
    \/ AskTimePasses

(***************************************************************************)
(* NotificationService._split_message                                      *)
(*                                                                         *)
(* A text is a sequence of characters.  The function is computed as the    *)
(* code computes it: rfind of the three boundaries in text[0:max_length],  *)
(* a hard split when there is none, then lstrip of the remainder.          *)
(***************************************************************************)

\* Bounds of the enumerated texts and limits.
MaxTextLen == 5
MaxSplitLength == 3

SplitAlphabet == {"a", " ", "\n"}
Whitespace == {" ", "\n"}
Texts == UNION {[1..n -> SplitAlphabet] : n \in 0..MaxTextLen}

\* str.rfind(sub, 0, end): the highest 0-based index of an occurrence of sub
\* that lies within text[0:end], or -1.
rfind(text, sub, end) ==
    LET limit == IF end < Len(text) THEN end ELSE Len(text)
        hits  == {p \in 0..limit : /\ p + Len(sub) <= limit
                                   /\ SubSeq(text, p + 1, p + Len(sub)) = sub}
    IN  IF hits = {} THEN -1 ELSE CHOOSE p \in hits : \A q \in hits : q <= p

\* str.lstrip()
lstrip(text) ==
    LET black == {i \in 1..Len(text) : text[i] \notin Whitespace}
    IN  IF black = {} THEN <<>> ELSE SubSeq(text, Min(black), Len(text))

\* the position the loop body splits at
split_pos(text, max_length) ==
    LET para == rfind(text, <<"\n", "\n">>, max_length)
        line == rfind(text, <<"\n">>, max_length)
        word == rfind(text, <<" ">>, max_length)
    IN  IF para # -1 THEN para
        ELSE IF line # -1 THEN line
        ELSE IF word # -1 THEN word
        ELSE max_length

\* the while loop of _split_message
RECURSIVE SplitLoop(_, _)
SplitLoop(text, max_length) ==
    IF text = <<>> THEN <<>>
    ELSE IF Len(text) <= max_length THEN <<text>>
    ELSE LET p == split_pos(text, max_length)
         IN  <<SubSeq(text, 1, p)>>
             \o SplitLoop(lstrip(SubSeq(text, p + 1, Len(text))), max_length)

_split_message(text, max_length) ==
    IF Len(text) <= max_length THEN <<text>> ELSE SplitLoop(text, max_length)

SplitInit ==
    /\ splitText = <<>>
    /\ splitMax = 1
    /\ splitChunks = <<>>
    /\ splitPc = "input"

\* every text up to MaxTextLen with every limit up to MaxSplitLength
SplitInputs ==
    /\ splitText \in Texts
    /\ splitMax \in 1..MaxSplitLength
    /\ splitChunks = <<>>
    /\ splitPc = "input"

\* one call _split_message(text, max_length)
SplitCall ==
    /\ splitPc = "input"
    /\ splitChunks' = _split_message(splitText, splitMax)
    /\ splitPc' = "returned"
    /\ UNCHANGED <<splitText, splitMax>>
    /\ UNCHANGED nonSplitVars

NextSplit == SplitCall

(***************************************************************************)
(* NotificationService: send queue and drain loop                          *)
(*                                                                         *)
(* handle_response puts events into an unbounded queue; the _sender_task   *)
(* (_process_send_queue) takes them out one at a time and sends each to    *)
(* its channels through _rate_limited_send.  The drain loop is a coroutine *)
(* and each action below is its code between two awaits.  Times are in     *)
(* tenths of a second.                                                     *)
(***************************************************************************)

\* Bounds: handle_response calls, stop() calls, the loop clock.
MaxNotifyEvents == 2
MaxStops == 1
MaxLoopTime == 22

SEND_INTERVAL_SECONDS == 11

\* The clock moves by one of these steps, or to the end of a sleep.
NotifyTicks == {6}

NotifyChannels == {"c1", "c2"}
default_channel_ids == <<"c1", "c2">>
\* AgentResponseEvent.channel_id defaults to the empty string
NoChannel == ""

\* The limit _rate_limited_send splits at (the default of max_length),
\* scaled to the texts below.
DefaultMaxLength == 3
ShortText == <<"a", "b">>
LongText == <<"a", "b", " ", "a", "a">>

NoEvent == [id |-> 0, type |-> None, channel_id |-> NoChannel, text |-> <<>>]

\* The events the bus may hand to handle_response as its id-th call.
NotifyEvents(id) ==
    {[id |-> id, type |-> "AgentResponseEvent", channel_id |-> NoChannel, text |-> ShortText],
     [id |-> id, type |-> "AgentResponseEvent", channel_id |-> "c1", text |-> LongText],
     [id |-> id, type |-> "Event", channel_id |-> NoChannel, text |-> <<>>]}

AllNotifyEvents == UNION {NotifyEvents(id) : id \in 1..MaxNotifyEvents}

NoDrain == [pc |-> "none", event |-> NoEvent, channels |-> <<>>,
            chunks |-> <<>>, chunk |-> 0, wake |-> 0, stops |-> 0,
            cancelled |-> {}]

\* No chat_postMessage call was made to the channel yet.
NoCall == [event |-> 0, chunk |-> 0, rest |-> <<>>, time |-> NoTime,
           prev |-> NoTime, outcome |-> None, attempts |-> 0]

\* No handle_response call was made yet.
NoHandled == [n |-> 0, type |-> None, before |-> 0, after |-> 0, draining |-> FALSE]

NotifyInit ==
    /\ loopTime = 0
    /\ _send_queue = <<>>
    /\ _last_send_per_channel = [c \in NotifyChannels |-> 0]
    /\ _running = FALSE
    /\ drain = NoDrain
    /\ sendCalls = [c \in NotifyChannels |-> NoCall]
    /\ handled = NoHandled

\* The _sender_task exists and has neither finished nor died.
DrainAlive == drain.pc \notin {"none", "dead"}

\* NotificationService.start
notify_start ==
    /\ ~_running
    /\ _running' = TRUE
    /\ drain' = [drain EXCEPT !.pc = "get"]
    /\ UNCHANGED <<loopTime, _send_queue, _last_send_per_channel, sendCalls, handled>>
    /\ UNCHANGED nonNotifyVars

\* NotificationService.stop: the task is cancelled wherever it is suspended;
\* the event it was sending is dropped.
notify_stop ==
    /\ _running
    /\ drain.stops < MaxStops
    /\ _running' = FALSE
    /\ drain' = [NoDrain EXCEPT !.stops = drain.stops + 1,
                                !.cancelled =
                    drain.cancelled \cup (IF drain.event = NoEvent THEN {}
                                          ELSE {drain.event.id})]
    /\ UNCHANGED <<loopTime, _send_queue, _last_send_per_channel, sendCalls, handled>>
    /\ UNCHANGED nonNotifyVars

\* handle_response accepting events of every type (the isinstance test left out).
handle_response_any_type(event) ==
    /\ handled.n < MaxNotifyEvents
    /\ event \in NotifyEvents(handled.n + 1)
    /\ _send_queue' = Append(_send_queue, event)
    /\ handled' = [n |-> handled.n + 1, type |-> event.type,
                   before |-> Len(_send_queue), after |-> Len(_send_queue'),
                   draining |-> DrainAlive]
    /\ UNCHANGED <<loopTime, _last_send_per_channel, _running, drain, sendCalls>>
    /\ UNCHANGED nonNotifyVars

\* handle_response: the queue is unbounded, so put never waits.
handle_response(event) ==
    /\ handled.n < MaxNotifyEvents
    /\ event \in NotifyEvents(handled.n + 1)
    /\ _send_queue' = IF event.type # "AgentResponseEvent" THEN _send_queue
                      ELSE Append(_send_queue, event)
    /\ handled' = [n |-> handled.n + 1, type |-> event.type,
                   before |-> Len(_send_queue), after |-> Len(_send_queue'),
                   draining |-> DrainAlive]
    /\ UNCHANGED <<loopTime, _last_send_per_channel, _running, drain, sendCalls>>
    /\ UNCHANGED nonNotifyVars

_resolve_channel_ids(event) ==
    IF event.channel_id # NoChannel THEN <<event.channel_id>>
    ELSE default_channel_ids

\* _process_send_queue: the queue hands out its first event; the for loop
\* over the resolved channels starts.
_process_send_queue ==
    /\ drain.pc = "get"
    /\ _send_queue # <<>>
    /\ LET event == Head(_send_queue)
           channel_ids == _resolve_channel_ids(event)
       IN  drain' = [drain EXCEPT !.pc = IF channel_ids = <<>> THEN "get" ELSE "send",
                                  !.event = IF channel_ids = <<>> THEN NoEvent ELSE event,
                                  !.channels = channel_ids]
    /\ _send_queue' = Tail(_send_queue)
    /\ UNCHANGED <<loopTime, _last_send_per_channel, _running, sendCalls, handled>>
    /\ UNCHANGED nonNotifyVars

\* chat_postMessage is called with chunk k of the drain loop's event for
\* its current channel: the channel's call record.
SendCall(k) ==
    LET last == sendCalls[drain.channels[1]]
    IN  sendCalls' = [sendCalls EXCEPT ![drain.channels[1]] =
            [event |-> drain.event.id, chunk |-> k,
             rest |-> Tail(drain.channels), time |-> loopTime,
             prev |-> last.time, outcome |-> "pending",
             attempts |-> IF last.event = drain.event.id /\ last.chunk = k
                          THEN last.attempts + 1 ELSE 1]]

\* _rate_limited_send computes the chunks and calls chat_postMessage with
\* the first one.
PostFirstChunk ==
    /\ drain' = [drain EXCEPT !.pc = "posting",
                              !.chunks = _split_message(drain.event.text, DefaultMaxLength),
                              !.chunk = 1]
    /\ SendCall(1)

\* _rate_limited_send(channel_id, event) up to its first await.
_rate_limited_send ==
    /\ drain.pc = "send"
    /\ LET last_send == _last_send_per_channel[drain.channels[1]]
           wait_time == SEND_INTERVAL_SECONDS - (loopTime - last_send)
       IN  IF wait_time > 0
           THEN /\ drain' = [drain EXCEPT !.pc = "sleep_before",
                                          !.wake = loopTime + wait_time]
                /\ UNCHANGED sendCalls
           ELSE PostFirstChunk
    /\ UNCHANGED <<loopTime, _send_queue, _last_send_per_channel, _running, handled>>
    /\ UNCHANGED nonNotifyVars

\* asyncio.sleep(wait_time) is over.
_rate_limited_send_wake ==
    /\ drain.pc = "sleep_before"
    /\ loopTime >= drain.wake
    /\ PostFirstChunk
    /\ UNCHANGED <<loopTime, _send_queue, _last_send_per_channel, _running, handled>>
    /\ UNCHANGED nonNotifyVars

\* The drain record once _rate_limited_send has returned: the next channel
\* of the event, or back to the queue.
NextChannel(d) ==
    IF Len(d.channels) > 1
    THEN [d EXCEPT !.pc = "send", !.channels = Tail(d.channels),
                   !.chunks = <<>>, !.chunk = 0, !.wake = 0]
    ELSE [d EXCEPT !.pc = "get", !.event = NoEvent, !.channels = <<>>,
                   !.chunks = <<>>, !.chunk = 0, !.wake = 0]

\* The outcome of the call in flight is written to the log.
SetOutcome(outcome) ==
    sendCalls' = [sendCalls EXCEPT ![drain.channels[1]].outcome = outcome]

\* chat_postMessage returned.
chat_postMessage_ok ==
    /\ drain.pc = "posting"
    /\ SetOutcome("ok")
    /\ _last_send_per_channel' =
           [_last_send_per_channel EXCEPT ![drain.channels[1]] = loopTime]
    /\ drain' = IF Len(drain.chunks) > 1
                THEN [drain EXCEPT !.pc = "sleep_after",
                                   !.wake = loopTime + SEND_INTERVAL_SECONDS]
                ELSE NextChannel(drain)
    /\ UNCHANGED <<loopTime, _send_queue, _running, handled>>
    /\ UNCHANGED nonNotifyVars

\* asyncio.sleep(SEND_INTERVAL_SECONDS) after a chunk of a multi-part
\* message is over: the next chunk, or the end of the for loop.
_rate_limited_send_next_chunk ==
    /\ drain.pc = "sleep_after"
    /\ loopTime >= drain.wake
    /\ IF drain.chunk < Len(drain.chunks)
       THEN /\ drain' = [drain EXCEPT !.pc = "posting", !.chunk = @ + 1]
            /\ SendCall(drain.chunk + 1)
       ELSE /\ drain' = NextChannel(drain)
            /\ UNCHANGED sendCalls
    /\ UNCHANGED <<loopTime, _send_queue, _last_send_per_channel, _running, handled>>
    /\ UNCHANGED nonNotifyVars

\* chat_postMessage raised SlackApiError: logged, _rate_limited_send returns.
chat_postMessage_api_error ==
    /\ drain.pc = "posting"
    /\ SetOutcome("api_error")
    /\ drain' = NextChannel(drain)
    /\ UNCHANGED <<loopTime, _send_queue, _last_send_per_channel, _running, handled>>
    /\ UNCHANGED nonNotifyVars

\* chat_postMessage raised anything else (connection error, timeout): the
\* exception leaves _rate_limited_send and _process_send_queue, the task ends.
chat_postMessage_other_error ==
    /\ drain.pc = "posting"
    /\ SetOutcome("error")
    /\ drain' = [drain EXCEPT !.pc = "dead"]
    /\ UNCHANGED <<loopTime, _send_queue, _last_send_per_channel, _running, handled>>
    /\ UNCHANGED nonNotifyVars

Sleeping == drain.pc \in {"sleep_before", "sleep_after"}

\* Time passes; a sleep ends at its wake time and a runnable drain loop
\* runs before the clock moves on.
NotifyTimePasses ==
    \E t \in {loopTime + d : d \in NotifyTicks} \cup (IF Sleeping THEN {drain.wake} ELSE {}) :
        /\ t > loopTime
        /\ t <= MaxLoopTime
        /\ Sleeping => t <= drain.wake
        /\ drain.pc # "send"
        /\ ~(drain.pc = "get" /\ _send_queue # <<>>)
        /\ loopTime' = t
        /\ UNCHANGED <<_send_queue, _last_send_per_channel, _running, drain,
                       sendCalls, handled>>
        /\ UNCHANGED nonNotifyVars

NextNotify ==
    \/ notify_start
    \/ notify_stop
    \/ \E event \in AllNotifyEvents : handle_response(event)
    \/ _process_send_queue
    \/ _rate_limited_send
    \/ _rate_limited_send_wake
    \/ chat_postMessage_ok
    \/ _rate_limited_send_next_chunk
    \/ chat_postMessage_api_error
    \/ chat_postMessage_other_error
    \/ NotifyTimePasses

(***************************************************************************)
(* A job's day-of-week field across add_job and restarts                   *)
(*                                                                         *)
(* add_job builds the trigger from the caller's expression and hands the   *)
(* same expression to _save_job; every start builds the trigger again from *)
(* the row's cron_expression.                                              *)
(***************************************************************************)

\* Bounds: loads of the row after the add, tokens of the day-of-week field.
MaxLoads == 2
MaxReloadFieldLen == 1

ReloadFields == UNION {[1..k -> DowTokens] : k \in 1..MaxReloadFieldLen}

ReloadInit ==
    /\ givenDow = <<>>
    /\ registeredDow = <<>>
    /\ persistedDow = <<>>
    /\ reloadedDow = <<>>
    /\ loads = 0
    /\ reloadPc = "input"

ReloadInputs ==
    /\ givenDow \in ReloadFields
    /\ registeredDow = <<>>
    /\ persistedDow = <<>>
    /\ reloadedDow = <<>>
    /\ loads = 0
    /\ reloadPc = "input"

\* add_job handing the converted field to _save_job.
SavedDowField_converted(cron_dow, converted_dow) == converted_dow

\* The day-of-week field of the cron_expression add_job hands to _save_job:
\* the caller's.
SavedDowField(cron_dow, converted_dow) == cron_dow

\* add_job: parse_crontab, register the trigger, _save_job.
add_job_day_of_week ==
    /\ reloadPc = "input"
    /\ LET converted_dow == _convert_dow_field(givenDow)
       IN  /\ registeredDow' = converted_dow
           /\ persistedDow' = SavedDowField(givenDow, converted_dow)
    /\ reloadPc' = "added"
    /\ UNCHANGED <<givenDow, reloadedDow, loads>>
    /\ UNCHANGED nonReloadVars

\* A restart: _load_jobs_from_db builds the trigger from the row with
\* parse_crontab and registers it; the row is not written.
_load_jobs_from_db_day_of_week ==
    /\ reloadPc \in {"added", "loaded"}
    /\ loads < MaxLoads
    /\ reloadedDow' = _convert_dow_field(persistedDow)
    /\ loads' = loads + 1
    /\ reloadPc' = "loaded"
    /\ UNCHANGED <<givenDow, registeredDow, persistedDow>>
    /\ UNCHANGED nonReloadVars

NextReload ==
    \/ add_job_day_of_week
    \/ _load_jobs_from_db_day_of_week

(***************************************************************************)
(* ProjectChannelManager                                                   *)
(*                                                                         *)
(* The registry is loaded once from the projects file and the table        *)
(* project_threads holds what earlier runs wrote.  sync_channels runs at   *)
(* startup, before the bot takes events; resolve_project is called by the  *)
(* event handlers and suspends in the repository lookup.                   *)
(***************************************************************************)

\* Bound of the resolver model.
MaxResolves == 2

Slugs == {"pa", "pb"}
\* a slug the table still knows but the projects file no longer has
RepoSlugs == Slugs \cup {"gone"}
\* Channel ids: a workspace channel, a direct conversation, and the
\* channels pan-<slug> created for the projects.
PanChannelId == [s \in RepoSlugs |->
                    IF s = "pa" THEN "Pa" ELSE IF s = "pb" THEN "Pb" ELSE "Pg"]
StaticIds == {"C1", "D1"}
ResolveInputs == {NoChannel, "C1", "D1", "Pa", "Pb", "Pg"}
ResolverIds == {"r1", "r2"}

NoResolver == [pc |-> "idle", channel_id |-> NoChannel, mapAtCall |-> None,
               result |-> None, via |-> None]

\* At most one slug per non-empty channel id.
OneSlugPerChannel(f) ==
    \A s \in DOMAIN f : \A t \in DOMAIN f :
        (s # t /\ f[s] # NoChannel) => f[s] # f[t]

\* The projects files and tables a run can start from.
Registries ==
    {g \in [enabled : [Slugs -> BOOLEAN],
            channel_id : [Slugs -> StaticIds \cup {NoChannel}]] :
        OneSlugPerChannel(g.channel_id)}

RepoTables ==
    {f \in [RepoSlugs -> {NoChannel, "C1", "Pa", "Pb", "Pg"}] :
        /\ \A s \in RepoSlugs : f[s] \in {NoChannel, "C1", PanChannelId[s]}
        /\ OneSlugPerChannel(f)}

ResolveInit ==
    /\ registry = [enabled |-> [s \in Slugs |-> TRUE],
                   channel_id |-> [s \in Slugs |-> NoChannel]]
    /\ repoMappings = [s \in RepoSlugs |-> NoChannel]
    /\ workspace = {}
    /\ _channel_map = [c \in ResolveInputs \ {NoChannel} |-> None]
    /\ resolvers = [r \in ResolverIds |-> NoResolver]
    /\ resolveCalls = 0
    /\ synced = FALSE

ResolveStart ==
    /\ registry \in Registries
    /\ repoMappings \in RepoTables
    /\ workspace \in SUBSET {"C1"}
    /\ _channel_map = [c \in ResolveInputs \ {NoChannel} |-> None]
    /\ resolvers = [r \in ResolverIds |-> NoResolver]
    /\ resolveCalls = 0
    /\ synced = FALSE

\* registry.list_enabled()
list_enabled == {s \in Slugs : registry.enabled[s]}

\* registry.get_by_channel_id(channel_id): the project whose static
\* channel_id is the given one, or None.
get_by_channel_id(channel_id) ==
    IF \E s \in Slugs : registry.channel_id[s] = channel_id
    THEN CHOOSE s \in Slugs : registry.channel_id[s] = channel_id
    ELSE None

\* registry.get_by_slug(slug)
get_by_slug(slug) == IF slug \in Slugs THEN slug ELSE None

\* repository.get_by_channel_id(channel_id): the slug of the mapping row of
\* the channel, or None.
repository_get_by_channel_id(table, channel_id) ==
    IF \E s \in RepoSlugs : table[s] = channel_id
    THEN CHOOSE s \in RepoSlugs : table[s] = channel_id
    ELSE None

\* sync_channels: what the loop does for one enabled project.  ok = FALSE
\* stands for the channel that could not be created or an exception.
SyncedChannel(p, ok) ==
    IF registry.channel_id[p] # NoChannel
    THEN IF registry.channel_id[p] \in workspace \/ registry.channel_id[p] = "D1"
         THEN registry.channel_id[p]
         ELSE NoChannel
    ELSE IF repoMappings[p] # NoChannel
         THEN IF ok THEN repoMappings[p] ELSE NoChannel
         ELSE IF ok THEN PanChannelId[p] ELSE NoChannel

\* sync_channels at startup: every enabled project whose channel is found
\* or created enters the in-memory map; a project without a static
\* channel_id and without a mapping row gets one.
sync_channels(failed) ==
    /\ ~synced
    /\ failed \subseteq {p \in list_enabled : registry.channel_id[p] = NoChannel}
    /\ synced' = TRUE
    /\ _channel_map' = [c \in DOMAIN _channel_map |->
            IF \E p \in list_enabled : SyncedChannel(p, p \notin failed) = c
            THEN CHOOSE p \in list_enabled : SyncedChannel(p, p \notin failed) = c
            ELSE _channel_map[c]]
    /\ repoMappings' = [s \in RepoSlugs |->
            IF /\ s \in list_enabled
               /\ registry.channel_id[s] = NoChannel
               /\ repoMappings[s] = NoChannel
               /\ s \notin failed
            THEN PanChannelId[s]
            ELSE repoMappings[s]]
    /\ UNCHANGED <<registry, workspace, resolvers, resolveCalls>>
    /\ UNCHANGED nonResolveVars

FreeResolver(r) == resolvers[r].pc \in {"idle", "returned"}

\* resolve_project up to the await on repository.get_by_channel_id.
resolve_project(r, channel_id) ==
    /\ synced
    /\ FreeResolver(r)
    /\ resolveCalls < MaxResolves
    /\ resolveCalls' = resolveCalls + 1
    /\ LET call == [NoResolver EXCEPT !.channel_id = channel_id,
                       !.mapAtCall = IF channel_id = NoChannel THEN None
                                     ELSE _channel_map[channel_id]]
           project == get_by_channel_id(channel_id)
       IN  IF channel_id = NoChannel
           THEN /\ resolvers' = [resolvers EXCEPT ![r] =
                      [call EXCEPT !.pc = "returned", !.via = "empty"]]
                /\ UNCHANGED _channel_map
           ELSE IF _channel_map[channel_id] # None
           THEN /\ resolvers' = [resolvers EXCEPT ![r] =
                      [call EXCEPT !.pc = "returned", !.via = "map",
                         !.result =
                            IF registry.enabled[_channel_map[channel_id]]
                            THEN _channel_map[channel_id] ELSE None]]
                /\ UNCHANGED _channel_map
           ELSE IF project # None /\ registry.enabled[project]
           THEN /\ _channel_map' = [_channel_map EXCEPT ![channel_id] = project]
                /\ resolvers' = [resolvers EXCEPT ![r] =
                      [call EXCEPT !.pc = "returned", !.via = "registry",
                         !.result = project]]
           ELSE /\ resolvers' = [resolvers EXCEPT ![r] =
                      [call EXCEPT !.pc = "lookup"]]
                /\ UNCHANGED _channel_map
    /\ UNCHANGED <<registry, repoMappings, workspace, synced>>
    /\ UNCHANGED nonResolveVars

\* resolve_project after the repository lookup has returned.
resolve_project_resume(r) ==
    /\ resolvers[r].pc = "lookup"
    /\ LET channel_id == resolvers[r].channel_id
           mapping == repository_get_by_channel_id(repoMappings, channel_id)
           project == IF mapping = None THEN None ELSE get_by_slug(mapping)
       IN  IF project # None /\ registry.enabled[project]
           THEN /\ _channel_map' = [_channel_map EXCEPT ![channel_id] = project]
                /\ resolvers' = [resolvers EXCEPT ![r] =
                      [@ EXCEPT !.pc = "returned", !.via = "repository",
                         !.result = project]]
           ELSE /\ resolvers' = [resolvers EXCEPT ![r] =
                      [@ EXCEPT !.pc = "returned", !.via = "none"]]
                /\ UNCHANGED _channel_map
    /\ UNCHANGED <<registry, repoMappings, workspace, synced, resolveCalls>>
    /\ UNCHANGED nonResolveVars

NextResolve ==
    \/ \E failed \in SUBSET Slugs : sync_channels(failed)
    \/ \E r \in ResolverIds, c \in ResolveInputs : resolve_project(r, c)
    \/ \E r \in ResolverIds : resolve_project_resume(r)


(***************************************************************************)
(* Mention gating and gap context of agentic_text / agentic_file           *)
(*                                                                         *)
(* A text is a sequence of characters.  "b" is the bot name, "B" its       *)
(* upper-case form, "x" another word character, "@" one mention marker     *)
(* <@U...> (its first and last character are no word characters).         *)
(***************************************************************************)

\* Bounds of the enumerated messages and histories.
MaxMsgLen == 3
MaxHistory == 3

MsgAlphabet == {"b", "B", "x", " ", ",", "@"}
WordChars == {"b", "B", "x"}
MentionMarker == "@"
bot_name == "b"
\* the characters of .strip(" ,:;-") that occur in the alphabet
TriggerStripChars == {" ", ","}
MsgTexts == UNION {[1..n -> MsgAlphabet] : n \in 0..MaxMsgLen}
GateChannels == {"C1", "D1"}
\* a last_response_ts that is set
SomeTs == 5

\* channel.startswith("D")
IsDirect(channel) == channel = "D1"

\* str.lower()
Lower(text) == [i \in 1..Len(text) |-> IF text[i] = "B" THEN "b" ELSE text[i]]

\* The k-th smallest member of a set of indices, and the sub-sequence of
\* seq at the indices of S, in order.
Nth(S, k) == CHOOSE i \in S : Cardinality({j \in S : j <= i}) = k
SubSeqAt(seq, S) == [k \in 1..Cardinality(S) |-> seq[Nth(S, k)]]

\* str.strip(chars)
strip(text, chars) ==
    LET keep == {i \in 1..Len(text) : text[i] \notin chars}
    IN  IF keep = {} THEN <<>>
        ELSE SubSeq(text, Min(keep), CHOOSE i \in keep : \A j \in keep : j <= i)

\* re.search(r"\b" + bot_name + r"\b", lower): the start of every match
NameMatches(lower) ==
    {i \in 1..Len(lower) :
        /\ lower[i] = bot_name
        /\ (i = 1 \/ lower[i - 1] \notin WordChars)
        /\ (i = Len(lower) \/ lower[i + 1] \notin WordChars)}

\* re.search without the word boundaries: the name anywhere in the text
NameMatches_substring(lower) ==
    {i \in 1..Len(lower) : lower[i] = bot_name}

\* re.sub(r"<@U[A-Z0-9]+>\s*", "", stripped): every marker goes, with the
\* white space that follows it.
RemoveMarkers(stripped) ==
    SubSeqAt(stripped,
        {i \in 1..Len(stripped) :
            /\ stripped[i] # MentionMarker
            /\ ~(\E j \in 1..(i - 1) :
                    /\ stripped[j] = MentionMarker
                    /\ \A k \in (j + 1)..i : stripped[k] \in Whitespace)})

NoChecked == [ignore |-> FALSE, text |-> <<>>]

\* _check_mention_required with the name matched anywhere in a word.
_check_mention_required_substring(message_text, channel, require_mention) ==
    IF ~require_mention \/ IsDirect(channel)
    THEN [ignore |-> FALSE, text |-> message_text]
    ELSE LET stripped == lstrip(message_text)
             lower == Lower(stripped)
         IN  IF NameMatches_substring(lower) # {}
             THEN LET match_start == Min(NameMatches_substring(lower))
                      cleaned == strip(SubSeq(stripped, 1, match_start - 1)
                                          \o SubSeq(stripped, match_start + 1, Len(stripped)),
                                       TriggerStripChars)
                  IN  [ignore |-> FALSE,
                       text |-> IF cleaned # <<>> THEN cleaned ELSE message_text]
             ELSE IF \E i \in 1..Len(stripped) : stripped[i] = MentionMarker
             THEN LET remainder == strip(RemoveMarkers(stripped), Whitespace)
                  IN  [ignore |-> FALSE,
                       text |-> IF remainder # <<>> THEN remainder ELSE message_text]
             ELSE [ignore |-> TRUE, text |-> <<>>]

\* _check_mention_required: the text to use as the prompt, or ignore (None).
_check_mention_required(message_text, channel, require_mention) ==
    IF ~require_mention \/ IsDirect(channel)
    THEN [ignore |-> FALSE, text |-> message_text]
    ELSE LET stripped == lstrip(message_text)
             lower == Lower(stripped)
         IN  IF NameMatches(lower) # {}
             THEN LET match_start == Min(NameMatches(lower))
                      cleaned == strip(SubSeq(stripped, 1, match_start - 1)
                                          \o SubSeq(stripped, match_start + 1, Len(stripped)),
                                       TriggerStripChars)
                  IN  [ignore |-> FALSE,
                       text |-> IF cleaned # <<>> THEN cleaned ELSE message_text]
             ELSE IF \E i \in 1..Len(stripped) : stripped[i] = MentionMarker
             THEN LET remainder == strip(RemoveMarkers(stripped), Whitespace)
                  IN  [ignore |-> FALSE,
                       text |-> IF remainder # <<>> THEN remainder ELSE message_text]
             ELSE [ignore |-> TRUE, text |-> <<>>]

\* What conversations_history may return for oldest = marker: up to
\* MaxHistory messages later than the marker, newest first; each is
\* authored by a bot or not and has no text, a blank text or a text.
HistoryTexts == {<<>>, <<" ">>, <<"x">>}
HistoryAuthors == [bot_id : BOOLEAN, text : HistoryTexts]
Histories(marker) ==
    UNION {{[i \in 1..n |-> [ts |-> marker + n - i + 1, bot_id |-> f[i].bot_id,
                             text |-> f[i].text, user |-> "u1"]] :
               f \in [1..n -> HistoryAuthors]} : n \in 0..MaxHistory}

\* no preamble (None)
NoPreamble == <<>>

\* _fetch_gap_context without the bot_id test.
_fetch_gap_context_with_bots(messages) ==
    LET human == {i \in 1..Len(messages) :
                     strip(messages[i].text, Whitespace) # <<>>}
    IN  [k \in 1..Cardinality(human) |->
            LET m == messages[Nth(human, Cardinality(human) + 1 - k)]
            IN  [user |-> m.user, text |-> m.text, ts |-> m.ts]]

\* _fetch_gap_context after the history has arrived: one line per message
\* without bot_id and with a non-blank text, oldest first (ts tells which
\* message a line was made from); no such message gives None.
_fetch_gap_context(messages) ==
    LET human == {i \in 1..Len(messages) :
                     /\ ~messages[i].bot_id
                     /\ strip(messages[i].text, Whitespace) # <<>>}
    IN  [k \in 1..Cardinality(human) |->
            LET m == messages[Nth(human, Cardinality(human) + 1 - k)]
            IN  [user |-> m.user, text |-> m.text, ts |-> m.ts]]

NoGateEvent == [kind |-> None, text |-> <<>>, channel |-> "C1",
                require_mention |-> FALSE, last_response_ts |-> NoTs]
NoFetch == [called |-> FALSE, oldest |-> NoTs, failed |-> FALSE]
NoPrompt == [preamble |-> NoPreamble, text |-> <<>>]

\* The events: a message with a text, or a standalone file upload.
GateEvents ==
    [kind : {"message"}, text : MsgTexts \ {<<>>}, channel : GateChannels,
     require_mention : BOOLEAN, last_response_ts : {NoTs, SomeTs}]
    \cup
    [kind : {"file_shared"}, text : {<<>>}, channel : GateChannels,
     require_mention : BOOLEAN, last_response_ts : {NoTs, SomeTs}]

MentionInit ==
    /\ mEvent = NoGateEvent
    /\ mPc = "idle"
    /\ mChecked = NoChecked
    /\ mFetch = NoFetch
    /\ mHistory = <<>>
    /\ mPrompt = NoPrompt
    /\ mPosts = 0
    /\ mAgentRuns = 0

MentionInputs ==
    /\ mEvent \in GateEvents
    /\ mPc = "received"
    /\ mChecked = NoChecked
    /\ mFetch = NoFetch
    /\ mHistory = <<>>
    /\ mPrompt = NoPrompt
    /\ mPosts = 0
    /\ mAgentRuns = 0

\* chan_ctx.get("require_mention") and not channel.startswith("D")
GatedChannel == mEvent.require_mention /\ ~IsDirect(mEvent.channel)

\* agentic_text from the mention check to the await in _fetch_gap_context
\* (or, when nothing is fetched, to the prompt).
agentic_text_gate ==
    /\ mPc = "received"
    /\ mEvent.kind = "message"
    /\ LET checked == _check_mention_required(mEvent.text, mEvent.channel,
                                              mEvent.require_mention)
       IN  /\ mChecked' = checked
           /\ IF checked.ignore
              THEN /\ mPc' = "ignored"
                   /\ UNCHANGED <<mFetch, mPrompt>>
              ELSE IF GatedChannel /\ mEvent.last_response_ts # NoTs
              THEN \* await client.conversations_history(oldest=last_response_ts)
                   /\ mPc' = "history"
                   /\ mFetch' = [called |-> TRUE, oldest |-> mEvent.last_response_ts,
                                 failed |-> FALSE]
                   /\ UNCHANGED mPrompt
              ELSE \* not gated, or _fetch_gap_context returned None at once
                   /\ mPc' = "prompt"
                   /\ mPrompt' = [preamble |-> NoPreamble, text |-> checked.text]
                   /\ UNCHANGED mFetch
    /\ UNCHANGED <<mEvent, mHistory, mPosts, mAgentRuns>>
    /\ UNCHANGED nonMentionVars

\* conversations_history answers: the preamble is put before the text.
conversations_history_returns ==
    /\ mPc = "history"
    /\ \E messages \in Histories(mFetch.oldest) :
          /\ mHistory' = messages
          /\ mPrompt' = [preamble |-> _fetch_gap_context(messages),
                         text |-> mChecked.text]
    /\ mPc' = "prompt"
    /\ UNCHANGED <<mEvent, mChecked, mFetch, mPosts, mAgentRuns>>
    /\ UNCHANGED nonMentionVars

\* conversations_history raises: logged, no preamble.
conversations_history_fails ==
    /\ mPc = "history"
    /\ mFetch' = [mFetch EXCEPT !.failed = TRUE]
    /\ mPrompt' = [preamble |-> NoPreamble, text |-> mChecked.text]
    /\ mPc' = "prompt"
    /\ UNCHANGED <<mEvent, mChecked, mHistory, mPosts, mAgentRuns>>
    /\ UNCHANGED nonMentionVars

\* agentic_text goes on: "Working..." is posted and run_command is called
\* with the prompt.
agentic_text_run ==
    /\ mPc = "prompt"
    /\ mPc' = "agent"
    /\ mPosts' = mPosts + 1
    /\ mAgentRuns' = mAgentRuns + 1
    /\ UNCHANGED <<mEvent, mChecked, mFetch, mHistory, mPrompt>>
    /\ UNCHANGED nonMentionVars

\* agentic_file: a standalone upload is ignored in a gated channel and
\* processed otherwise.
agentic_file ==
    /\ mPc = "received"
    /\ mEvent.kind = "file_shared"
    /\ IF GatedChannel
       THEN /\ mPc' = "ignored"
            /\ UNCHANGED <<mPosts, mAgentRuns>>
       ELSE /\ mPc' = "agent"
            /\ mPosts' = mPosts + 1
            /\ mAgentRuns' = mAgentRuns + 1
    /\ UNCHANGED <<mEvent, mChecked, mFetch, mHistory, mPrompt>>
    /\ UNCHANGED nonMentionVars

NextMention ==
    \/ agentic_text_gate
    \/ conversations_history_returns
    \/ conversations_history_fails
    \/ agentic_text_run
    \/ agentic_file


(***************************************************************************)
(* AgentHandler: handle_webhook and handle_scheduled                       *)
(***************************************************************************)

\* Bound of the target channels of a ScheduledEvent.
MaxTargets == 3

TargetChannels == {"C1", "C2"}
TargetLists == UNION {[1..n -> TargetChannels] : n \in 0..MaxTargets}

\* Outcomes of orchestrator.run_scheduled_prompt for one channel: it
\* returned after the run ("ok"), it returned after catching the failure of
\* the run ("failed"), or it raised (resolve_project or the "Working..."
\* post failed).
ScheduledOutcomes == {"ok", "failed", "raised"}

NoAgentEvent == [kind |-> None, target_channel_ids |-> <<>>, orchestrator |-> FALSE]

AgentEvents ==
    [kind : {"scheduled"}, target_channel_ids : TargetLists, orchestrator : BOOLEAN]
    \cup
    [kind : {"webhook"}, target_channel_ids : {<<>>}, orchestrator : BOOLEAN]

AgentInit ==
    /\ aEvent = NoAgentEvent
    /\ aPc = "idle"
    /\ aIndex = 0
    /\ aRuns = <<>>
    /\ aPublished = <<>>
    /\ aEscaped = FALSE

AgentInputs ==
    /\ aEvent \in AgentEvents
    /\ aPc = "received"
    /\ aIndex = 0
    /\ aRuns = <<>>
    /\ aPublished = <<>>
    /\ aEscaped = FALSE

\* if self.orchestrator and self.slack_client and event.target_channel_ids
ViaOrchestrator == aEvent.orchestrator /\ aEvent.target_channel_ids # <<>>

\* handle_webhook up to the await of claude.run_command.
handle_webhook ==
    /\ aPc = "received"
    /\ aEvent.kind = "webhook"
    /\ aPc' = "run"
    /\ UNCHANGED <<aEvent, aIndex, aRuns, aPublished, aEscaped>>
    /\ UNCHANGED nonAgentVars

\* handle_scheduled up to its first await: run_scheduled_prompt for the
\* first target channel, or the standalone run_command.
handle_scheduled ==
    /\ aPc = "received"
    /\ aEvent.kind = "scheduled"
    /\ IF ViaOrchestrator
       THEN aPc' = "orchestrator" /\ aIndex' = 1
       ELSE aPc' = "run" /\ UNCHANGED aIndex
    /\ UNCHANGED <<aEvent, aRuns, aPublished, aEscaped>>
    /\ UNCHANGED nonAgentVars

\* The loop of handle_scheduled without its try/except: an exception of
\* run_scheduled_prompt leaves the handler.
handle_scheduled_channel_unguarded ==
    /\ aPc = "orchestrator"
    /\ \E outcome \in ScheduledOutcomes :
          /\ aRuns' = Append(aRuns, [channel_id |-> aEvent.target_channel_ids[aIndex],
                                     outcome |-> outcome])
          /\ IF outcome = "raised"
             THEN aPc' = "done" /\ aEscaped' = TRUE /\ UNCHANGED aIndex
             ELSE /\ UNCHANGED aEscaped
                  /\ IF aIndex < Len(aEvent.target_channel_ids)
                     THEN aIndex' = aIndex + 1 /\ UNCHANGED aPc
                     ELSE aPc' = "done" /\ UNCHANGED aIndex
    /\ UNCHANGED <<aEvent, aPublished>>
    /\ UNCHANGED nonAgentVars

\* run_scheduled_prompt for the current channel ends; an exception is
\* logged; the loop goes to the next channel or the handler returns.
handle_scheduled_channel ==
    /\ aPc = "orchestrator"
    /\ \E outcome \in ScheduledOutcomes :
          aRuns' = Append(aRuns, [channel_id |-> aEvent.target_channel_ids[aIndex],
                                  outcome |-> outcome])
    /\ IF aIndex < Len(aEvent.target_channel_ids)
       THEN aIndex' = aIndex + 1 /\ UNCHANGED aPc
       ELSE aPc' = "done" /\ UNCHANGED aIndex
    /\ UNCHANGED <<aEvent, aPublished, aEscaped>>
    /\ UNCHANGED nonAgentVars

\* handle_scheduled publishing for the first target channel only.
agent_run_returns_first_target_only ==
    /\ aPc = "run"
    /\ \E content \in BOOLEAN :
          /\ aRuns' = Append(aRuns, [channel_id |-> NoChannel,
                                     outcome |-> IF content THEN "ok" ELSE "empty"])
          /\ aPublished' =
                IF ~content THEN aPublished
                ELSE IF aEvent.target_channel_ids = <<>>
                     THEN Append(aPublished, NoChannel)
                     ELSE Append(aPublished, aEvent.target_channel_ids[1])
    /\ aPc' = "done"
    /\ UNCHANGED <<aEvent, aIndex, aEscaped>>
    /\ UNCHANGED nonAgentVars

\* claude.run_command returns, with content ("ok") or without ("empty"):
\* with content, one AgentResponseEvent per target channel is published, or
\* one with channel_id "" when there is no target (always for a webhook).
agent_run_returns ==
    /\ aPc = "run"
    /\ \E content \in BOOLEAN :
          /\ aRuns' = Append(aRuns, [channel_id |-> NoChannel,
                                     outcome |-> IF content THEN "ok" ELSE "empty"])
          /\ aPublished' =
                IF ~content THEN aPublished
                ELSE IF aEvent.target_channel_ids = <<>>
                     THEN Append(aPublished, NoChannel)
                     ELSE aPublished \o aEvent.target_channel_ids
    /\ aPc' = "done"
    /\ UNCHANGED <<aEvent, aIndex, aEscaped>>
    /\ UNCHANGED nonAgentVars

\* claude.run_command raises: logged, nothing published.
agent_run_raises ==
    /\ aPc = "run"
    /\ aRuns' = Append(aRuns, [channel_id |-> NoChannel, outcome |-> "raised"])
    /\ aPc' = "done"
    /\ UNCHANGED <<aEvent, aIndex, aPublished, aEscaped>>
    /\ UNCHANGED nonAgentVars

NextAgent ==
    \/ handle_webhook
    \/ handle_scheduled
    \/ handle_scheduled_channel
    \/ agent_run_returns
    \/ agent_run_raises


(***************************************************************************)
(* Middleware chain: security, authentication, rate limit, handler         *)
(***************************************************************************)

\* Bound of the events sent through the chain.
MaxMwEvents == 2

NoUserId == ""
MwUsers == {"U01GOOD", "U99BAD"}
\* WhitelistAuthProvider: the users allowed to authenticate
allowed_users == {"U01GOOD"}

NoMw == [pc |-> "idle", user |-> NoUserId, bot_id |-> FALSE,
         had_session |-> FALSE, authenticated_now |-> FALSE, stopped_at |-> None]

AuthInit ==
    /\ authSessions = {}
    /\ mw = NoMw
    /\ mwHandled = {}
    /\ mwCount = 0

\* Bolt hands an event to the first middleware; _extract_user_id finds a
\* user id in it or not.
mw_receive ==
    /\ mw.pc \in {"idle", "stopped", "done"}
    /\ mwCount < MaxMwEvents
    /\ mwCount' = mwCount + 1
    /\ \E u \in MwUsers \cup {NoUserId}, b \in BOOLEAN :
          mw' = [NoMw EXCEPT !.pc = "security", !.user = u, !.bot_id = b]
    /\ UNCHANGED <<authSessions, mwHandled>>
    /\ UNCHANGED nonAuthVars

\* slack_security_middleware: an event without user id is passed on, a bot
\* message is dropped, a text the validator rejects stops the chain.
slack_security_middleware ==
    /\ mw.pc = "security"
    /\ IF mw.user = NoUserId
       THEN mw' = [mw EXCEPT !.pc = "auth"]
       ELSE IF mw.bot_id
       THEN mw' = [mw EXCEPT !.pc = "stopped", !.stopped_at = "security"]
       ELSE \E is_safe \in BOOLEAN :
               mw' = IF is_safe THEN [mw EXCEPT !.pc = "auth"]
                     ELSE [mw EXCEPT !.pc = "stopped", !.stopped_at = "security"]
    /\ UNCHANGED <<authSessions, mwHandled, mwCount>>
    /\ UNCHANGED nonAuthVars

\* slack_auth_middleware that passes an event without user id on, as the
\* security and rate limit middleware do.
slack_auth_middleware_pass_anonymous ==
    /\ mw.pc = "auth"
    /\ IF mw.user = NoUserId
       THEN mw' = [mw EXCEPT !.pc = "rate_limit"]
       ELSE IF mw.user \in authSessions
       THEN mw' = [mw EXCEPT !.pc = "rate_limit", !.had_session = TRUE]
       ELSE mw' = [mw EXCEPT !.pc = "authenticating"]
    /\ UNCHANGED <<authSessions, mwHandled, mwCount>>
    /\ UNCHANGED nonAuthVars

\* slack_auth_middleware up to next() or to the await of
\* authenticate_user.
slack_auth_middleware ==
    /\ mw.pc = "auth"
    /\ IF mw.user = NoUserId
       THEN mw' = [mw EXCEPT !.pc = "stopped", !.stopped_at = "auth"]
       ELSE IF mw.user \in authSessions
       THEN mw' = [mw EXCEPT !.pc = "rate_limit", !.had_session = TRUE]
       ELSE mw' = [mw EXCEPT !.pc = "authenticating"]
    /\ UNCHANGED <<authSessions, mwHandled, mwCount>>
    /\ UNCHANGED nonAuthVars

\* authenticate_user returns: a session is created for an allowed user and
\* next() is called; for any other user the chain stops.
authenticate_user ==
    /\ mw.pc = "authenticating"
    /\ IF mw.user \in allowed_users
       THEN /\ authSessions' = authSessions \cup {mw.user}
            /\ mw' = [mw EXCEPT !.pc = "rate_limit", !.authenticated_now = TRUE]
       ELSE /\ mw' = [mw EXCEPT !.pc = "stopped", !.stopped_at = "auth"]
            /\ UNCHANGED authSessions
    /\ UNCHANGED <<mwHandled, mwCount>>
    /\ UNCHANGED nonAuthVars

\* slack_rate_limit_middleware: next() unless the limit is exceeded.
slack_rate_limit_middleware ==
    /\ mw.pc = "rate_limit"
    /\ \E allowed \in BOOLEAN :
          mw' = IF allowed \/ mw.user = NoUserId THEN [mw EXCEPT !.pc = "handler"]
                ELSE [mw EXCEPT !.pc = "stopped", !.stopped_at = "rate_limit"]
    /\ UNCHANGED <<authSessions, mwHandled, mwCount>>
    /\ UNCHANGED nonAuthVars

\* The registered handler of the event runs.
mw_handler ==
    /\ mw.pc = "handler"
    /\ mwHandled' = mwHandled \cup {[n |-> mwCount, user |-> mw.user,
                                     had_session |-> mw.had_session,
                                     authenticated_now |-> mw.authenticated_now]}
    /\ mw' = [mw EXCEPT !.pc = "done"]
    /\ UNCHANGED <<authSessions, mwCount>>
    /\ UNCHANGED nonAuthVars

\* The session of a user times out.
session_expires ==
    /\ \E u \in MwUsers :
          /\ u \in authSessions
          /\ authSessions' = authSessions \ {u}
    /\ UNCHANGED <<mw, mwHandled, mwCount>>
    /\ UNCHANGED nonAuthVars

NextAuth ==
    \/ mw_receive
    \/ slack_security_middleware
    \/ slack_auth_middleware
    \/ authenticate_user
    \/ slack_rate_limit_middleware
    \/ mw_handler
    \/ session_expires


(***************************************************************************)
(* Specifications                                                          *)
(***************************************************************************)

Init ==
    CronInit /\ SchedInit /\ RouteInit /\ AskInit /\ SplitInit /\ NotifyInit /\ ReloadInit /\ ResolveInit /\ MentionInit /\ AgentInit /\ AuthInit

Next == NextSched

Spec == Init /\ [][Next]_vars

NextCron == parse_crontab

InitCron ==
    CronInputs /\ SchedInit /\ RouteInit /\ AskInit /\ SplitInit /\ NotifyInit /\ ReloadInit /\ ResolveInit /\ MentionInit /\ AgentInit /\ AuthInit

SpecCron == InitCron /\ [][NextCron]_vars

SpecRoute == Init /\ [][NextRoute]_vars

SpecAsk == Init /\ [][NextAsk]_vars

InitSplit ==
    CronInit /\ SchedInit /\ RouteInit /\ AskInit /\ SplitInputs /\ NotifyInit /\ ReloadInit /\ ResolveInit /\ MentionInit /\ AgentInit /\ AuthInit

SpecSplit == InitSplit /\ [][NextSplit]_vars

SpecNotify == Init /\ [][NextNotify]_vars

\* The event loop runs a runnable _sender_task, a chat_postMessage call
\* ends one way or another, and time passes.
NotifyDrainStep ==
    \/ _process_send_queue
    \/ _rate_limited_send
    \/ _rate_limited_send_wake
    \/ chat_postMessage_ok
    \/ _rate_limited_send_next_chunk
    \/ chat_postMessage_api_error
    \/ chat_postMessage_other_error

SpecNotifyLive ==
    /\ Init
    /\ [][NextNotify]_vars
    /\ WF_vars(NotifyDrainStep)
    /\ WF_vars(NotifyTimePasses)

InitReload ==
    CronInit /\ SchedInit /\ RouteInit /\ AskInit /\ SplitInit /\ NotifyInit /\ ReloadInputs /\ ResolveInit /\ MentionInit /\ AgentInit /\ AuthInit

SpecReload == InitReload /\ [][NextReload]_vars

InitResolve ==
    CronInit /\ SchedInit /\ RouteInit /\ AskInit /\ SplitInit /\ NotifyInit /\ ReloadInit /\ ResolveStart /\ MentionInit /\ AgentInit /\ AuthInit

SpecResolve == InitResolve /\ [][NextResolve]_vars

InitMention ==
    CronInit /\ SchedInit /\ RouteInit /\ AskInit /\ SplitInit /\ NotifyInit /\ ReloadInit /\ ResolveInit /\ MentionInputs /\ AgentInit /\ AuthInit

SpecMention == InitMention /\ [][NextMention]_vars

InitAgent ==
    CronInit /\ SchedInit /\ RouteInit /\ AskInit /\ SplitInit /\ NotifyInit /\ ReloadInit /\ ResolveInit /\ MentionInit /\ AgentInputs /\ AuthInit

SpecAgent == InitAgent /\ [][NextAgent]_vars

InitJobs ==
    CronInit /\ SchedInputs /\ RouteInit /\ AskInit /\ SplitInit /\ NotifyInit /\ ReloadInit /\ ResolveInit /\ MentionInit /\ AgentInit /\ AuthInit

SpecJobs == InitJobs /\ [][Next]_vars

InitAuth ==
    CronInit /\ SchedInit /\ RouteInit /\ AskInit /\ SplitInit /\ NotifyInit /\ ReloadInit /\ ResolveInit /\ MentionInit /\ AgentInit /\ AuthInit

SpecAuth == InitAuth /\ [][NextAuth]_vars

(***************************************************************************)
(* Properties of the scheduler                                             *)
(***************************************************************************)

\* start() has returned: every missed job it collected has been fired.
StartReturned == running /\ missedJobs = <<>> /\ ~recFire.busy

\* C1: when start() has returned, every job that was active at the load
\* with a non-null last_fired_at and at least one expected fire time T,
\* last_fired_at < T <= now, not later than the grace window, has been
\* fired exactly once by that start, whatever the length of the downtime.
C1_MissedWithinGraceFiresOnce ==
    StartReturned => \A j \in dueAtStart : recCount[j] = 1

\* C2: a job whose missed fire times are all older than the grace window
\* gets no recovery fire from start(), and no ScheduledEvent is ever
\* published for a fire time that is later than the grace window.
C2_StaleMisfireNeverFired ==
    /\ \A j \in staleAtStart : recCount[j] = 0 /\ (recFire.busy => recFire.job_id # j)
    /\ \A e \in published : e.late * SecondsPerMinute <= MISFIRE_GRACE_SECONDS

\* a second restart has loaded a job whose missed fires are all stale
C2_Witness ==
    /\ StartReturned
    /\ crashes = 2
    /\ staleAtStart # {}
    /\ published # {}

\* C4: at the moment a ScheduledEvent of an active job is handed to the
\* event bus, the job's persisted last_fired_at is already the time of
\* that fire.
PublishedFire ==
    IF recFire.busy /\ ~recFire'.busy THEN recFire
    ELSE IF \E j \in JobIds : natFire[j].busy /\ ~natFire'[j].busy
         THEN natFire[CHOOSE j \in JobIds : natFire[j].busy /\ ~natFire'[j].busy]
         ELSE NoFire

C4_LastFiredRecordedBeforePublish ==
    [][(/\ published' # published
        /\ PublishedFire.rowActive
        /\ rows[PublishedFire.job_id].is_active)
       => (/\ rows[PublishedFire.job_id].last_fired_at # NoTime
           /\ rows[PublishedFire.job_id].last_fired_at >= PublishedFire.fired)]_vars

\* C5: one expected fire time of a job never produces two ScheduledEvents,
\* also across a crash and a restart.
C5_NoFireTimeFiredTwice ==
    \A e1 \in published : \A e2 \in published :
        (e1.job_id = e2.job_id /\ e1.expected = e2.expected) => e1 = e2

(***************************************************************************)
(* Properties of the crontab conversion                                    *)
(***************************************************************************)

\* C3: the trigger built by parse_crontab fires on exactly the weekdays the
\* crontab day-of-week field denotes (0 and 7 = Sunday, 1 = Monday ...).
C3_TriggerDaysMatchCrontab ==
    cronPc = "parsed" => TriggerDays(apField) = CrontabDays(dowField)

(***************************************************************************)
(* Properties of the channel routing state                                 *)
(***************************************************************************)

\* The routing load of handler h completes in this step.
LoadReturns(h) == handlers[h].pc \in {"idle", "apply_db"} /\ handlers'[h].pc = "handler"

\* C6: when the routing load for a channel completes, the values it hands to
\* the handler (directory, session id, last-response marker) and the project
\* slug are those of the state last saved for that channel by
\* _persist_channel_state, also when the process restarted in between.
C6_LoadReturnsSavedState ==
    [][\A h \in HandlerIds :
          (LoadReturns(h) /\ lastSaved[handlers'[h].channel] # NoChanState)
          => LET saved  == lastSaved[handlers'[h].channel]
                 loaded == userStates'[handlers'[h].user]
             IN  /\ loaded.current_directory = saved.current_directory
                 /\ loaded.claude_session_id = saved.claude_session_id
                 /\ loaded.last_response_ts = saved.last_response_ts
                 /\ ProjectSlug(handlers'[h].channel) = saved.project_slug]_vars

\* C7: the directory stored in every channel entry lies inside the project
\* root of that channel, and every agent invocation (message or scheduled
\* prompt) runs in a directory inside the project root of its channel.
C7_DirectoryInsideProjectRoot ==
    /\ \A u \in Users, c \in Channels :
           LET d == userStates[u].channel_state[c].current_directory
           IN  d # NoPath => _is_within(d, ProjectRoot(c))
    /\ \A h \in HandlerIds :
           handlers[h].pc = "agent"
           => _is_within(handlers[h].current_dir, ProjectRoot(handlers[h].channel))

\* The session id s is none, or was created by an agent turn of channel c.
OwnSession(s, c) == s = NoSession \/ s.channel = c

\* C8: under every interleaving of handlers, the agent invocation for
\* channel c resumes only a session of channel c, and the entry stored for c
\* holds only a session id of an agent turn of c.
C8_ChannelUsesOwnSession ==
    /\ \A h \in HandlerIds :
           handlers[h].pc = "agent"
           => OwnSession(handlers[h].session_id, handlers[h].channel)
    /\ \A u \in Users, c \in Channels :
           OwnSession(userStates[u].channel_state[c].claude_session_id, c)

(***************************************************************************)
(* Properties of the AskUserQuestion rendezvous                            *)
(***************************************************************************)

\* The ask has ended, by returning or by raising.
AskEnded(a) == asks[a].pc \in {"returned", "raised"}

\* C9: an ask that posted its prompt, was alone on its key, and whose entry
\* was found by a button click before the 300 s were over returns, not later
\* than its deadline, a mapping that holds a clicked value.
C9_AnswerReachesAsk ==
    \A a \in AskIds :
        (AskEnded(a) /\ asks[a].posted /\ ~asks[a].overlap /\ asks[a].clicked # {})
        => /\ asks[a].pc = "returned"
           /\ asks[a].returned_at <= asks[a].deadline
           /\ \E v \in asks[a].clicked : <<asks[a].questions[1], v>> \in asks[a].result

\* No button of the ask's key has been clicked.
NeverClicked(a) == \A b \in ClickIds : clicks[b].key # asks[a].key

\* C10: an ask that posted its prompt and whose key never saw a click ends
\* exactly at its deadline with an empty answer set, which the agent receives
\* as an allowed tool call with its input unchanged; and no ask waits beyond
\* its deadline.
C10_TimeoutReturnsEmptyAtDeadline ==
    /\ \A a \in AskIds :
           (AskEnded(a) /\ asks[a].posted /\ NeverClicked(a))
           => /\ asks[a].pc = "returned"
              /\ asks[a].result = NoAnswers
              /\ asks[a].permission = "allow"
              /\ asks[a].returned_at = asks[a].deadline
    /\ \A a \in AskIds : asks[a].pc = "waiting" => clock <= asks[a].deadline

\* C11: the step in which a waiting ask runs into its timeout ends the ask
\* by returning an empty answer set, never by raising, and leaves no entry
\* under its key; this also holds when another ask uses the same key.
C11_TimeoutReturnsEmptyNeverRaises ==
    [][\A a \in AskIds :
          (asks[a].pc = "waiting" /\ ~asks[a].event /\ asks'[a].pc \in {"returned", "raised"})
          => /\ asks'[a].pc = "returned"
             /\ asks'[a].result = NoAnswers
             /\ _pending_questions'[asks[a].key] = None]_vars

\* An ask for key k is between registering its entry and its end.
AskInProgress(k) ==
    \E a \in AskIds : asks[a].key = k /\ asks[a].pc \in {"posting", "waiting"}

\* C12: a key for which no ask is in progress has no entry in the pending
\* table.
C12_NoEntryWithoutAsk ==
    \A k \in InteractionKeys : ~AskInProgress(k) => _pending_questions[k] = None

\* C13: an ask that was woken by a button click (it returned before its
\* deadline after having posted its prompt) returns a mapping with exactly
\* one entry, keyed by the text of the first question; any other returned
\* mapping is empty.
C13_OneAnswerForFirstQuestion ==
    \A a \in AskIds :
        asks[a].pc = "returned"
        => /\ asks[a].result # NoAnswers
              => \E v \in ButtonValues : asks[a].result = {<<asks[a].questions[1], v>>}
           /\ (asks[a].posted /\ asks[a].returned_at < asks[a].deadline)
              => asks[a].result # NoAnswers

(***************************************************************************)
(* Properties of the notification service                                  *)
(***************************************************************************)

\* C14: two consecutive chat_postMessage calls of the drain loop to the same
\* channel are at least SEND_INTERVAL_SECONDS apart, whatever the outcome of
\* the earlier call.
C14_SendCallsSpacedPerChannel ==
    \A c \in NotifyChannels :
        sendCalls[c].prev # NoTime
        => sendCalls[c].time - sendCalls[c].prev >= SEND_INTERVAL_SECONDS

\* C15: when the send of an event to one of its channels has failed (API
\* error or any other error) and the service was not stopped, every later
\* channel of that event has been sent to or is still going to be, the
\* drain loop is still there for later events, and no chunk is sent twice.
C15_FailedSendStopsNothing ==
    \A c \in NotifyChannels :
        /\ sendCalls[c].attempts <= 1
        /\ (sendCalls[c].outcome \in {"api_error", "error"}
            /\ sendCalls[c].event \notin drain.cancelled /\ _running)
           => /\ DrainAlive
              /\ \A j \in 1..Len(sendCalls[c].rest) :
                    LET c2 == sendCalls[c].rest[j]
                    IN  \/ sendCalls[c2].event = sendCalls[c].event
                        \/ /\ drain.event.id = sendCalls[c].event
                           /\ \E i \in 1..Len(drain.channels) : drain.channels[i] = c2

\* The text is the chunks in order, with nothing but whitespace between two
\* chunks and after the last one.
RECURSIVE SeamsOnly(_, _)
SeamsOnly(text, chunks) ==
    IF chunks = <<>> THEN \A i \in 1..Len(text) : text[i] \in Whitespace
    ELSE LET n == Len(chunks[1])
         IN  /\ Len(text) >= n
             /\ SubSeq(text, 1, n) = chunks[1]
             /\ \E k \in 0..(Len(text) - n) :
                    /\ \A i \in 1..k : text[n + i] \in Whitespace
                    /\ SeamsOnly(SubSeq(text, n + k + 1, Len(text)), Tail(chunks))

\* C16: _split_message returns pieces that are non-empty (for a non-empty
\* text) and at most max_length long, that make up the text with only seam
\* whitespace removed; a text within the limit comes back as one unchanged
\* piece and a text without any boundary is cut every max_length characters.
C16_SplitPiecesWellFormed ==
    splitPc = "returned"
    => /\ \A i \in 1..Len(splitChunks) :
             /\ Len(splitChunks[i]) <= splitMax
             /\ splitText # <<>> => splitChunks[i] # <<>>
       /\ SeamsOnly(splitText, splitChunks)
       /\ Len(splitText) <= splitMax => splitChunks = <<splitText>>
       /\ (\A i \in 1..Len(splitText) : splitText[i] \notin Whitespace)
          => \A i \in 1..(Len(splitChunks) - 1) : Len(splitChunks[i]) = splitMax

\* C17: every handle_response call with an AgentResponseEvent made the
\* queue one longer, and a call with any other event left its length alone.
C17_EnqueueAddsExactlyOne ==
    handled.n > 0
    => IF handled.type = "AgentResponseEvent"
       THEN handled.after = handled.before + 1
       ELSE handled.after = handled.before

\* an AgentResponseEvent was enqueued behind queued events while no drain
\* loop was running
C17_Witness ==
    /\ handled.type = "AgentResponseEvent"
    /\ handled.before >= 1
    /\ ~handled.draining
    /\ handled.after = handled.before + 1

(***************************************************************************)
(* Properties of add_job and remove_job                                    *)
(***************************************************************************)

\* C18: an add_job call with a malformed cron expression raises and leaves
\* the job table and the timer registrations as they were.
C18_MalformedCronRejected ==
    [][(apiCall' # apiCall /\ apiCall'.op = "add_job" /\ apiCall'.cron \in MalformedCrons)
       => (apiCall'.raised /\ rows' = rows /\ timers' = timers)]_vars

\* a malformed expression was rejected while a job was persisted and registered
C18_Witness ==
    /\ apiCall.op = "add_job"
    /\ apiCall.cron = "* * * *"
    /\ apiCall.raised
    /\ \E j \in JobIds : rows[j].present /\ rows[j].is_active /\ timers[j].registered

C19_ReloadedTriggerSameWeekdays ==
    /\ reloadPc \in {"added", "loaded"} => persistedDow = givenDow
    /\ reloadPc = "loaded"
       => /\ reloadedDow = registeredDow
          /\ TriggerDays(reloadedDow) = TriggerDays(registeredDow)

\* a field that the conversion changes, and would change again, has been
\* loaded twice
C19_Witness ==
    /\ reloadPc = "loaded"
    /\ loads = MaxLoads
    /\ registeredDow # givenDow
    /\ _convert_dow_field(registeredDow) # registeredDow
    /\ TriggerDays(_convert_dow_field(registeredDow)) # TriggerDays(registeredDow)
    /\ reloadedDow = registeredDow

(***************************************************************************)
(* Properties of removed and never-fired jobs                              *)
(***************************************************************************)

\* remove_job(j) has returned: the row of j is there and inactive (nothing
\* sets is_active back to 1 for an existing job_id).
Removed(j) == rows[j].present /\ ~rows[j].is_active

\* C21: once remove_job(j) has returned, no further ScheduledEvent is
\* published for j, by the running process or after a restart, j stays
\* removed and list_jobs does not show it.
C21_RemovedJobNeverPublished ==
    [][\A j \in JobIds :
          Removed(j)
          => /\ {e \in published' : e.job_id = j} = {e \in published : e.job_id = j}
             /\ rows'[j].present /\ ~rows'[j].is_active
             /\ \A i \in 1..Len(list_jobs(rows')) : list_jobs(rows')[i] # j]_vars

\* The ids of the jobs start() still has to fire.
MissedIds == {missedJobs[i].job_id : i \in 1..Len(missedJobs)}

\* C22: an active job whose persisted last_fired_at is null gets no
\* recovery fire from start(), whatever the downtime was: start() only
\* registers it for its next fire time after now.
C22_NeverFiredJobNotRecovered ==
    [][/\ \A j \in JobIds :
            (running /\ j \in ActiveRows(rows) /\ rows[j].last_fired_at = NoTime)
            => /\ recCount[j] = 0
               /\ ~(recFire.busy /\ recFire.job_id = j)
               /\ j \notin MissedIds
       /\ (~running /\ running')
          => \A j \in ActiveRows(rows) :
                rows[j].last_fired_at = NoTime
                => /\ j \notin {missedJobs'[i].job_id : i \in 1..Len(missedJobs')}
                   /\ timers'[j].registered
                   /\ timers'[j].next_run_time > now
                   /\ IsFireTime(rows[j].cron, timers'[j].next_run_time)
                   /\ \A T \in (now + 1)..(timers'[j].next_run_time - 1) :
                         ~IsFireTime(rows[j].cron, T)]_vars

\* a restart has loaded an active job that never fired, fire times of it
\* lie in the downtime, and start() has returned without firing anything
C22_Witness ==
    /\ StartReturned
    /\ crashes >= 1
    /\ published = {}
    /\ \E j \in ActiveRows(rows) :
          /\ rows[j].last_fired_at = NoTime
          /\ timers[j].registered
          /\ timers[j].next_run_time = NextFireTime(rows[j].cron, now)
          /\ MissedWithinGrace(rows[j].cron, 0, now)

\* C23: two fires of the same job are never in flight at the same time,
\* a recovery fire made by start() and a timer fire of that job included.
C23_OneFireInFlightPerJob ==
    \A j \in JobIds : ~(recFire.busy /\ recFire.job_id = j /\ natFire[j].busy)

(***************************************************************************)
(* Properties of resolve_project                                           *)
(***************************************************************************)

\* The project a hit stands for: none when the project is disabled.
EnabledOrNone(p) == IF p # None /\ registry.enabled[p] THEN p ELSE None

\* The first hit for a channel in the order in-memory map (as it was at the
\* call), static binding of the registry, persisted mapping.
FirstHit(channel_id, mapAtCall) ==
    IF channel_id = NoChannel THEN None
    ELSE IF mapAtCall # None THEN mapAtCall
    ELSE IF get_by_channel_id(channel_id) # None
         THEN get_by_channel_id(channel_id)
    ELSE IF repository_get_by_channel_id(repoMappings, channel_id) # None
         THEN get_by_slug(repository_get_by_channel_id(repoMappings, channel_id))
    ELSE None

\* C24: resolve_project returns the first hit in the order in-memory map,
\* static binding of the registry, persisted mapping; a hit of the
\* registry or of the persisted mapping is in the in-memory map afterwards;
\* an empty channel id, no hit, or a hit on a disabled project gives none.
C24_ResolveReturnsFirstHit ==
    \A r \in ResolverIds :
        resolvers[r].pc = "returned"
        => /\ resolvers[r].result =
                 EnabledOrNone(FirstHit(resolvers[r].channel_id, resolvers[r].mapAtCall))
           /\ (resolvers[r].result # None /\ resolvers[r].via \in {"registry", "repository"})
              => _channel_map[resolvers[r].channel_id] = resolvers[r].result

(***************************************************************************)
(* Properties of the save after a handler                                  *)
(***************************************************************************)

\* The wrapper of h finishes in this step: its handler had been invoked and
\* has ended, and the process was not restarted under it.
WrapperEnds(h) ==
    /\ handlers[h].kind \in {"text", "repo"}
    /\ handlers[h].pc = "persist"
    /\ handlers'[h].pc = "idle"
    /\ restarts' = restarts

\* The state of an event is not saved while its handler runs, it is saved
\* once when the wrapper finishes, however the handler ended, and never
\* again; the saved session id is the one the user's state holds then.
SavedOnceAfterHandler(h) ==
    /\ (handlers[h].pc # "idle" /\ handlers[h].kind \in {"text", "repo"})
       => saves[handlers[h].n].count = 0
    /\ WrapperEnds(h)
       => /\ saves'[handlers[h].n] = [count |-> 1, exit |-> handlers[h].exit]
          /\ handlers[h].exit \in {"returned", "early", "raised"}
          /\ userStates'[handlers[h].user].channel_state[handlers[h].channel].claude_session_id
                = userStates[handlers[h].user].claude_session_id
    /\ \A n \in 1..MaxTurns : saves[n].count = 1 => saves'[n] = saves[n]

WholeWordName(text) ==
    \E i \in 1..Len(text) :
        /\ text[i] \in {"b", "B"}
        /\ (i = 1 \/ text[i - 1] \notin WordChars)
        /\ (i = Len(text) \/ text[i + 1] \notin WordChars)

HasMarker(text) == \E i \in 1..Len(text) : text[i] = MentionMarker

HasTrigger(text) == WholeWordName(text) \/ HasMarker(text)

\* C26: in a channel whose project has require_mention set and which is no
\* direct conversation, a message with neither the bot name as a whole word
\* nor a mention marker (a standalone upload has no text at all) leads to
\* no agent invocation, no post and no history call: the handler returns;
\* in a direct conversation, or without require_mention, nothing is
\* ignored by the gate.
C26_UnaddressedDropped ==
    /\ (mEvent.kind # None /\ GatedChannel /\ ~HasTrigger(mEvent.text))
          => /\ mPc \in {"received", "ignored"}
             /\ mAgentRuns = 0
             /\ mPosts = 0
             /\ ~mFetch.called
    /\ (mEvent.kind # None /\ ~GatedChannel) => mPc # "ignored"

\* A gated message that holds the bot name only inside another word has
\* been ignored.
C26_Witness ==
    /\ mPc = "ignored"
    /\ mEvent.kind = "message"
    /\ \E i \in 1..Len(mEvent.text) : mEvent.text[i] = bot_name
    /\ ~HasTrigger(mEvent.text)


\* The triggers of a text, in order: "name" for each whole-word bot name,
\* "marker" for each mention marker.
TriggerAt(text, i) ==
    IF text[i] = MentionMarker THEN "marker"
    ELSE IF /\ text[i] \in {"b", "B"}
            /\ (i = 1 \/ text[i - 1] \notin WordChars)
            /\ (i = Len(text) \/ text[i + 1] \notin WordChars)
         THEN "name"
         ELSE None

Triggers(text) ==
    LET at == {i \in 1..Len(text) : TriggerAt(text, i) # None}
    IN  [k \in 1..Cardinality(at) |-> TriggerAt(text, Nth(at, k))]

\* The triggers left when the first occurrence of the trigger that
\* addressed the bot (the name if there is one, else the marker) is removed.
TriggersWithoutFirst(text) ==
    LET all == Triggers(text)
        kind == IF WholeWordName(text) THEN "name" ELSE "marker"
        k == Min({i \in 1..Len(all) : all[i] = kind})
    IN  SubSeq(all, 1, k - 1) \o SubSeq(all, k + 1, Len(all))

\* Apart from one trigger the text holds only characters that are stripped.
OnlyTheTrigger(text) ==
    Cardinality({i \in 1..Len(text) :
                    text[i] \notin (TriggerStripChars \cup Whitespace)}) = 1

\* C27: once a gated message with a trigger has been checked, the text used
\* as the prompt has every trigger of the message but the first occurrence
\* of the addressing one; the original text is used when nothing but the
\* trigger was there.
C27_FirstTriggerOnlyRemoved ==
    (/\ mEvent.kind = "message"
     /\ GatedChannel
     /\ HasTrigger(mEvent.text)
     /\ mPc # "received")
        => /\ ~mChecked.ignore
           /\ \/ Triggers(mChecked.text) = TriggersWithoutFirst(mEvent.text)
              \/ OnlyTheTrigger(mEvent.text) /\ mChecked.text = mEvent.text


(***************************************************************************)
(* Gap context                                                             *)
(***************************************************************************)

\* C28: in a mention-gated channel the agent is invoked for an addressed
\* message only after conversations_history was called for it, with the
\* channel's last_response_ts as oldest when there is one (and over the
\* recent window when there is none), and the lines made from the answer
\* are the preamble of the prompt.
C28_HistoryFetchedBeforeAgent ==
    (mEvent.kind = "message" /\ GatedChannel /\ mAgentRuns > 0)
        => /\ mFetch.called
           /\ mEvent.last_response_ts # NoTs
                 => mFetch.oldest = mEvent.last_response_ts
           /\ ~mFetch.failed => mPrompt.preamble = _fetch_gap_context(mHistory)


\* The fetched messages a person wrote: no bot id and a text that is not
\* blank.
HumanMessages(messages) ==
    {i \in 1..Len(messages) :
        /\ ~messages[i].bot_id
        /\ \E k \in 1..Len(messages[i].text) : messages[i].text[k] \notin Whitespace}

\* C29: once the history has arrived, the preamble has one line for each
\* fetched message without a bot id and with a text, made from that
\* message, and no other line; the lines are in the order the messages were
\* sent (oldest first); there is no preamble when no such message was
\* fetched.
C29_PreambleOnlyHumanOldestFirst ==
    (mFetch.called /\ ~mFetch.failed /\ mPc \in {"prompt", "agent"})
        => LET lines == mPrompt.preamble
               human == HumanMessages(mHistory)
           IN  /\ Len(lines) = Cardinality(human)
               /\ \A k \in 1..Len(lines) :
                     \E i \in human :
                        /\ mHistory[i].ts = lines[k].ts
                        /\ mHistory[i].text = lines[k].text
                        /\ mHistory[i].user = lines[k].user
               /\ \A k \in 1..(Len(lines) - 1) : lines[k].ts < lines[k + 1].ts
               /\ human = {} => lines = NoPreamble

\* The agent runs with a preamble of two lines made from a history that
\* also held a message of the bot with a text.
C29_Witness ==
    /\ mPc = "agent"
    /\ mFetch.called
    /\ Len(mPrompt.preamble) = 2
    /\ \E i \in 1..Len(mHistory) : mHistory[i].bot_id /\ mHistory[i].text = <<"x">>


(***************************************************************************)
(* AgentHandler isolation                                                  *)
(***************************************************************************)

\* C30: when handle_scheduled has run through the orchestrator, every
\* target channel had its run, in order, whatever the runs before it did;
\* no exception of an agent run (scheduled or webhook) leaves the handler;
\* and nothing is published as AgentResponseEvent for an event whose run
\* failed.
C30_ChannelRunsIsolated ==
    /\ (aPc = "done" /\ aEvent.kind = "scheduled" /\ ViaOrchestrator)
          => /\ Len(aRuns) = Len(aEvent.target_channel_ids)
             /\ \A i \in 1..Len(aRuns) :
                   aRuns[i].channel_id = aEvent.target_channel_ids[i]
    /\ ~aEscaped
    /\ (\E i \in 1..Len(aRuns) : aRuns[i].outcome # "ok") => aPublished = <<>>

\* handle_scheduled has returned after the run for the first of several
\* target channels raised and a later one succeeded.
C30_Witness ==
    /\ aPc = "done"
    /\ aEvent.kind = "scheduled"
    /\ Len(aRuns) >= 2
    /\ aRuns[1].outcome = "raised"
    /\ \E i \in 2..Len(aRuns) : aRuns[i].outcome = "ok"


(***************************************************************************)
(* Loading the job table on start                                          *)
(***************************************************************************)

\* C31: a start() leaves exactly the rows with is_active = 1 whose crontab
\* parses registered with the timer, each under its job_id with the name
\* and the crontab of its row; and every such row whose misfire
\* _detect_misfire reports is among the jobs start() goes on to fire.
C31_ActiveRowsReRegistered ==
    [][(~running /\ running')
        => \A j \in JobIds :
              /\ timers'[j].registered
                    <=> (j \in ActiveRows(rows) /\ ~ParseCrontabRaises(rows[j].cron))
              /\ timers'[j].registered
                    => /\ timers'[j].cron = rows[j].cron
                       /\ timers'[j].job_name = rows[j].job_name
                       /\ (_detect_misfire(rows[j].cron, rows[j].last_fired_at, now) # NoTime
                              => \E i \in 1..Len(missedJobs') : missedJobs'[i].job_id = j)]_vars


\* Job j starts a fire in this step: its timer elapsed, or start() fires
\* it as a missed job.
FireStarts(j) ==
    \/ ~natFire[j].busy /\ natFire'[j].busy
    \/ ~recFire.busy /\ recFire'.busy /\ recFire'.job_id = j

\* C33: a fire of job j leaves the persisted last_fired_at of every other
\* row as it was, whether that row is active or not and whatever its
\* job_name is.
C33_FireTouchesOwnRowOnly ==
    [][\A j \in JobIds :
          FireStarts(j)
              => \A k \in JobIds \ {j} :
                    rows'[k].last_fired_at = rows[k].last_fired_at]_vars

\* C34: whenever no scheduler operation is under way, the job ids
\* registered with the timer are the job ids of the rows with
\* is_active = 1.
C34_TimerIdsAreActiveRowIds ==
    SchedulerInDeps
        => {j \in JobIds : timers[j].registered} = ActiveRows(rows)


(***************************************************************************)
(* Authentication gate                                                     *)
(***************************************************************************)

\* The auth middleware lets the event in the chain through: it carries a
\* user id, and the user had a session or has just been authenticated.
AuthPassed(e) ==
    /\ e.user # NoUserId
    /\ e.had_session \/ (e.authenticated_now /\ e.user \in allowed_users)

\* C32: an event is past the auth middleware, and a handler has run for
\* an event, only if a user id was found in it and the user was already
\* authenticated or was authenticated for this event; an event without
\* user id, and one of a user who cannot be authenticated, stops at the
\* auth middleware or before it.
C32_HandlerOnlyForAuthenticated ==
    /\ mw.pc \in {"rate_limit", "handler", "done"} => AuthPassed(mw)
    /\ \A e \in mwHandled : AuthPassed(e)
    /\ (mw.pc = "stopped" /\ (mw.user = NoUserId
                              \/ (mw.user \notin allowed_users /\ ~mw.had_session)))
          => mw.stopped_at \in {"security", "auth"}

\* One event was handled after its user was authenticated for it, and a
\* later event without user id has been stopped by the auth middleware.
C32_Witness ==
    /\ \E e \in mwHandled : e.authenticated_now
    /\ mw.pc = "stopped"
    /\ mw.user = NoUserId
    /\ mw.stopped_at = "auth"


\* the last_ts agentic_text hands to _fetch_gap_context: the flat key, else
\* the one of the channel's entry
GapMarker(us, c) ==
    IF us.last_response_ts # NoTs THEN us.last_response_ts
    ELSE us.channel_state[c].last_response_ts

\* a message handler starts: the routing load has written the flat keys
GapFetchStarts(h) ==
    /\ handlers[h].pc # "handler"
    /\ handlers'[h].pc = "handler"
    /\ handlers'[h].kind = "text"

\* C35: The marker a message handler uses for the gap fetch in a channel is
\* the timestamp of the newest response the bot has posted in that channel,
\* whichever user triggered that response.
C35_GapMarkerIsNewestResponse ==
    [][\A h \in HandlerIds :
          GapFetchStarts(h)
          => GapMarker(userStates'[handlers'[h].user], handlers'[h].channel)
                 = lastBotTs[handlers'[h].channel]]_vars


\* a click stores its value in the entry it looked up and sets the entry's event
ClickResolves(b) ==
    /\ clicks[b].pc = "updating"
    /\ clicks'[b].pc = "done"

\* C36: Only button interactions of the user an ask was made for resolve or
\* alter the pending question: a click of another user of the channel
\* neither stores an answer nor sets the event.
C36_OnlyAskerClicksResolve ==
    [][\A b \in ClickIds :
          ClickResolves(b) /\ clicks[b].by # KeyUser(clicks[b].key)
          => asks' = asks]_vars


\* run_command is called for handler h in this step
AgentInvoked(h) ==
    /\ handlers[h].pc # "agent"
    /\ handlers'[h].pc = "agent"

\* the wrapper stores the channel's entry after /new
NewPersisted(h) ==
    /\ handlers[h].pc = "persist"
    /\ handlers[h].kind = "new"
    /\ handlers[h].exit = "returned"
    /\ handlers'[h].pc = "idle"

\* C37: After /new was handled in a channel the channel's saved session id
\* is null, and until an agent run of that user and channel has succeeded
\* every agent invocation for it is made with no session id and
\* force_new = true.
C37_ResetHoldsUntilSuccess ==
    [][\A h \in HandlerIds :
          /\ NewPersisted(h)
             => lastSaved'[handlers[h].channel].claude_session_id = NoSession
          /\ AgentInvoked(h)
               /\ newPending[handlers'[h].user][handlers'[h].channel]
             => /\ handlers'[h].session_id = NoSession
                /\ handlers'[h].force_new]_vars


\* the channels the notification service delivers the published events to
DeliveredTo ==
    [i \in 1..Len(aPublished) |-> _resolve_channel_ids([channel_id |-> aPublished[i]])]

\* C38: a ScheduledEvent handled on the standalone path has one agent run;
\* when the run returned content, one AgentResponseEvent per target channel
\* has been published in list order, or a single one with the empty channel
\* id (resolved to the default channels) when there is no target; when it
\* returned no content, nothing has been published.
C38_StandalonePublishesPerTarget ==
    (aPc = "done" /\ aEvent.kind = "scheduled" /\ ~ViaOrchestrator)
    => /\ Len(aRuns) = 1
       /\ aRuns[1].outcome = "ok"
            => IF aEvent.target_channel_ids # <<>>
               THEN aPublished = aEvent.target_channel_ids
               ELSE /\ aPublished = <<NoChannel>>
                    /\ DeliveredTo = <<default_channel_ids>>
       /\ aRuns[1].outcome = "empty" => aPublished = <<>>

\* a standalone run for two different target channels returned content
C38_Witness ==
    /\ aPc = "done"
    /\ aEvent.kind = "scheduled"
    /\ ~aEvent.orchestrator
    /\ Len(aEvent.target_channel_ids) >= 2
    /\ aEvent.target_channel_ids[1] # aEvent.target_channel_ids[2]
    /\ aRuns[1].outcome = "ok"
    /\ Len(aPublished) = Len(aEvent.target_channel_ids)


\* handler h takes a step of an event whose channel has no project (the
\* process is not restarted)
UnmappedStep(h) ==
    /\ restarts' = restarts
    /\ handlers'[h] # handlers[h]
    /\ \/ handlers[h].pc # "idle" /\ ~handlers[h].mapped
       \/ handlers'[h].pc # "idle" /\ ~handlers'[h].mapped

\* C39: for an inbound event in a channel for which resolve_project finds
\* no project, the wrapped handler is not invoked, no agent run is started
\* and no channel state is created or modified; only /start runs without
\* the check (and changes no state either).
C39_UnmappedChannelRejected ==
    [][\A h \in HandlerIds :
          UnmappedStep(h)
          => /\ handlers'[h].pc \in {"idle", "rejected", "start_say"}
             /\ handlers'[h].pc = "start_say" <=> handlers'[h].kind = "start"
             /\ UNCHANGED <<userStates, dbLastTs, agentSessions, lastSaved, saves>>]_vars

\* a message in a channel that holds state from an earlier event is rejected
C39_Witness ==
    \E h \in HandlerIds :
        /\ handlers[h].pc = "rejected"
        /\ handlers[h].kind = "text"
        /\ userStates[handlers[h].user].channel_state[handlers[h].channel] # NoChanState


\* event i is waiting in the queue or being sent, and c is one of its
\* resolved channels still to be served
AwaitsAttempt(i, c) ==
    \/ \E k \in 1..Len(_send_queue) :
          /\ _send_queue[k].id = i
          /\ \E n \in 1..Len(_resolve_channel_ids(_send_queue[k])) :
                _resolve_channel_ids(_send_queue[k])[n] = c
    \/ /\ drain.event.id = i
       /\ \E n \in 1..Len(drain.channels) : drain.channels[n] = c

\* chat_postMessage has been called for event i on channel c
AttemptedOn(i, c) == sendCalls[c].event = i

\* the drain loop sleeps beyond the end of the modelled clock
ClockHorizon == Sleeping /\ drain.wake > MaxLoopTime

\* C40: While the notification service is running, every enqueued
\* AgentResponseEvent is eventually attempted on each of its resolved
\* channels (as far as the modelled clock reaches).
C40_EnqueuedEventuallyAttempted ==
    \A i \in 1..MaxNotifyEvents : \A c \in NotifyChannels :
        (_running /\ AwaitsAttempt(i, c))
            ~> (AttemptedOn(i, c) \/ ~_running \/ ClockHorizon)

====
